---- MODULE Spec2Model ----
(***************************************************************************)
(* Susan (ai-susan-5403): the conflict gate of routes/conflicts.js, the    *)
(* purge-request table of migration 002, the periodic cleaner sweeps, the  *)
(* extraction router of extractionSorter.js, the reroute scripts with      *)
(* their path lookup, the project detector and the session detector of     *)
(* sessionDetector.js, modelled as state machines over the shared          *)
(* datastore.                                                              *)
(*                                                                         *)
(* Every `await from(...)` of a handler is one step: the datastore runs    *)
(* the query and the handler continues synchronously up to its next await, *)
(* so handlers of different requests interleave exactly at their awaits.   *)
(* supabase-js answers a failed write with {error} instead of throwing;    *)
(* a write step therefore draws its outcome (ok) from BOOLEAN.             *)
(***************************************************************************)
EXTENDS Integers, Sequences, FiniteSets, TLC

VARIABLES
    store,          \* typed stores: table name -> set of rows
    conflicts,      \* rows of dev_ai_conflicts
    notifications,  \* rows of dev_ai_notifications
    nextId,         \* table name -> next generated primary key
    flagReq,        \* the POST /conflicts/flag request in flight
    req,            \* slot -> the POST /conflicts/resolve request in flight
    response,       \* the response sent by the latest step ("none": none sent)
    dbWrite,        \* the datastore's answer to the latest step's write
    calls,          \* number of flag / resolve calls received so far
    effects,        \* history: conflict id -> data effects applied for it
    sessions,       \* rows of dev_ai_sessions
    messages,       \* rows of dev_ai_messages
    purge,          \* rows of dev_ai_purge_requests
    cleaner,        \* cleanerService.js: isRunning and the cycle's position
    cleanup,        \* the cleaner of projectOrganizer.js: isRunning, position
    clock,          \* creation order of the rows stored by the environment
    extractions,    \* rows of dev_ai_smart_extractions
    cycle,          \* slot -> a processPendingExtractions call in flight
    sorting,        \* run -> a sortExtraction call in flight
    written,        \* history: the rows inserted for each extraction
    result,         \* the value returned by the latest step ("none": none)
    registered,     \* rows of dev_project_paths
    pathLookup,     \* the lookup loadProjectPaths built
    reroute,        \* the reroute script in flight: position and last match
    detection,      \* the detectProject call in flight: position and scores
    detector        \* sessionDetector.js: sockets, timers, startupTriggered

gateVars == <<conflicts, notifications, flagReq, req, response, dbWrite, calls,
              effects>>

sweepVars == <<sessions, messages, purge, cleaner, cleanup, clock>>

routerVars == <<extractions, cycle, sorting, written, result>>

resolverVars == <<registered, pathLookup, reroute>>

scorerVars == <<detection>>

detectorVars == <<detector>>

toolVars == <<resolverVars, scorerVars, detectorVars>>

vars == <<store, nextId, gateVars, sweepVars, routerVars, toolVars>>

(***************************************************************************)
(* Bounds of the model.                                                    *)
(***************************************************************************)
MaxFlags == 1
MaxResolves == 2
MaxSlots == 2

Slots == 1..MaxSlots

\* new Date(): a logical clock that ticks with every request received; the
\* timestamp of a write is read when the datastore runs it.
now == 1 + calls.flag + calls.resolve

\* JavaScript's undefined / null for a text field; 0 for a missing id.
Null == "NULL"
NoId == 0

(***************************************************************************)
(* The typed stores the gate can reference.                                *)
(***************************************************************************)
Tables == {"dev_ai_knowledge", "dev_ai_todos"}

\* The typed stores the sweeps go over (of cleanAllDuplicates' table list,
\* dev_ai_bugs stands for the tables no other step handles).
TypedTables == Tables \cup {"dev_ai_bugs"}

\* A typed-store row; a row inserted without a title or a path has null there.
TypedRow(id, project, path, title, content, source, created) ==
    [id |-> id, project_id |-> project, project_path |-> path,
     title |-> title, content |-> content, source |-> source,
     created_at |-> created, updated_at |-> created]

Row(id, project, content, source, created) ==
    TypedRow(id, project, Null, Null, content, source, created)

GateInitStore ==
    [t \in TypedTables |->
        IF t \in Tables
        THEN {TypedRow(1, "p1", "/var/www/p1", "Title", "old", "extraction", 0),
              TypedRow(2, "p1", "/var/www/p1", "Other", "other", "extraction", 0)}
        ELSE {}]

validResolutions == {"keep_existing", "update", "both_valid", "dismiss"}

NoConflict ==
    [id |-> NoId, project_id |-> Null, existing_table |-> Null,
     existing_id |-> NoId, new_content |-> Null, new_source |-> Null,
     conflict_type |-> Null, status |-> Null, flagged_by |-> Null,
     resolution_notes |-> Null, resolved_by |-> Null, resolved_at |-> 0,
     created_at |-> 0]

NoFlagBody ==
    [existing_table |-> Null, existing_id |-> NoId, new_content |-> Null,
     new_source |-> Null]

NoBody ==
    [conflict_id |-> NoId, dev_id |-> Null, resolution |-> Null,
     resolution_notes |-> Null]

IdleFlag == [pc |-> "idle", body |-> NoFlagBody, conflict |-> NoConflict]

IdleReq ==
    [pc |-> "idle", body |-> NoBody, conflict |-> NoConflict,
     statusUpdate |-> Null, actionTaken |-> Null]

\* JavaScript falsiness of a text field and of an id field.
MissingMut(x) == FALSE

Missing(x) == x = Null

MissingId(x) == x = NoId

(***************************************************************************)
(* Datastore primitives (supabase-js query builder).                       *)
(***************************************************************************)
\* from(t).insert(row)
InsertRow(st, t, row) == [st EXCEPT ![t] = @ \cup {row}]

\* from(t).update({content, updated_at}).eq('id', id)
UpdateContentMut(st, t, id, content, ts) ==
    [st EXCEPT ![t] =
        {[r EXCEPT !.content = content, !.updated_at = ts] : r \in @}]

UpdateContent(st, t, id, content, ts) ==
    [st EXCEPT ![t] =
        {IF r.id = id THEN [r EXCEPT !.content = content, !.updated_at = ts]
                      ELSE r : r \in @}]

\* from('dev_ai_conflicts').select('*').eq('id', id).single()
FetchConflict(id) ==
    IF \E c \in conflicts : c.id = id
    THEN CHOOSE c \in conflicts : c.id = id
    ELSE NoConflict

\* from('dev_ai_conflicts').update({...}).eq('id', id)
MarkConflict(cs, id, status, notes, dev, ts) ==
    {IF c.id = id
     THEN [c EXCEPT !.status = status, !.resolution_notes = notes,
                    !.resolved_by = dev, !.resolved_at = ts]
     ELSE c : c \in cs}

(***************************************************************************)
(* POST /conflicts/flag                                                    *)
(***************************************************************************)
\* Well-formed bodies, and one body for each missing required field.
FlagBodies ==
    [existing_table : Tables, existing_id : {1}, new_content : {"new"},
     new_source : {Null, "session"}]
    \cup
    {[NoFlagBody EXCEPT !.existing_id = 1, !.new_content = "new"],
     [NoFlagBody EXCEPT !.existing_table = "dev_ai_todos", !.new_content = "new"],
     [NoFlagBody EXCEPT !.existing_table = "dev_ai_todos", !.existing_id = 1]}

\* The request arrives: destructuring, the required-field check, and the
\* conflict insert is issued (its created_at is read here).
FlagCall(body) ==
    /\ flagReq.pc = "idle"
    /\ calls.flag < MaxFlags
    /\ calls' = [calls EXCEPT !.flag = @ + 1]
    /\ IF Missing(body.existing_table) \/ MissingId(body.existing_id)
          \/ Missing(body.new_content)
       THEN /\ response' = "400_required"
            /\ UNCHANGED flagReq
       ELSE /\ flagReq' =
                [pc |-> "insert", body |-> body,
                 conflict |->
                    [NoConflict EXCEPT
                        !.project_id = "p1",
                        !.existing_table = body.existing_table,
                        !.existing_id = body.existing_id,
                        !.new_content = body.new_content,
                        !.new_source = body.new_source,
                        !.conflict_type = "contradiction",
                        !.status = "pending",
                        !.flagged_by = "susan"]]
            /\ response' = "none"
    /\ dbWrite' = "none"
    /\ UNCHANGED <<store, conflicts, notifications, nextId, req, effects>>
    /\ UNCHANGED <<sweepVars, routerVars, toolVars>>

\* The datastore runs the conflict insert; on {error} the handler throws and
\* answers 500, otherwise it issues the notification insert.
FlagInsert(ok) ==
    /\ flagReq.pc = "insert"
    /\ IF ok
       THEN LET c == [flagReq.conflict EXCEPT !.id = nextId["dev_ai_conflicts"],
                                              !.created_at = now]
            IN /\ conflicts' = conflicts \cup {c}
               /\ nextId' = [nextId EXCEPT !["dev_ai_conflicts"] = @ + 1]
               /\ flagReq' = [flagReq EXCEPT !.pc = "notify", !.conflict = c]
               /\ response' = "none"
       ELSE /\ flagReq' = IdleFlag
            /\ response' = "500"
            /\ UNCHANGED <<conflicts, nextId>>
    /\ dbWrite' = IF ok THEN "ok" ELSE "error"
    /\ UNCHANGED <<store, notifications, req, calls, effects>>
    /\ UNCHANGED <<sweepVars, routerVars, toolVars>>

NotificationMut(id, c) ==
    [id |-> id, dev_id |-> "assigned", project_id |-> c.project_id,
     notification_type |-> "conflict", related_table |-> c.existing_table,
     related_id |-> c.existing_id, status |-> "unread"]

Notification(id, c) ==
    [id |-> id, dev_id |-> "assigned", project_id |-> c.project_id,
     notification_type |-> "conflict", related_table |-> "dev_ai_conflicts",
     related_id |-> c.id, status |-> "unread"]

\* The datastore runs the notification insert; its result is not inspected,
\* and the handler answers 'Conflict flagged'.
FlagNotify(ok) ==
    /\ flagReq.pc = "notify"
    /\ IF ok
       THEN /\ notifications' = notifications \cup
                {Notification(nextId["dev_ai_notifications"], flagReq.conflict)}
            /\ nextId' = [nextId EXCEPT !["dev_ai_notifications"] = @ + 1]
       ELSE UNCHANGED <<notifications, nextId>>
    /\ flagReq' = IdleFlag
    /\ response' = "200_flagged"
    /\ dbWrite' = IF ok THEN "ok" ELSE "error"
    /\ UNCHANGED <<store, conflicts, req, calls, effects>>
    /\ UNCHANGED <<sweepVars, routerVars, toolVars>>

(***************************************************************************)
(* POST /conflicts/resolve                                                 *)
(***************************************************************************)
\* Well-formed bodies (the conflict id may name no conflict), and one body
\* for each way of failing the validation.
ResolveBodies ==
    [conflict_id : 1..MaxFlags, dev_id : {"dev1"},
     resolution : validResolutions, resolution_notes : {Null, "note"}]
    \cup
    {[NoBody EXCEPT !.conflict_id = MaxFlags + 1, !.dev_id = "dev1",
                    !.resolution = "update"],
     [NoBody EXCEPT !.dev_id = "dev1", !.resolution = "update"],
     [NoBody EXCEPT !.conflict_id = 1, !.resolution = "update"],
     [NoBody EXCEPT !.conflict_id = 1, !.dev_id = "dev1"],
     [NoBody EXCEPT !.conflict_id = 1, !.dev_id = "dev1",
                    !.resolution = "bogus"]}

\* `resolved_${resolution}`
StatusUpdate(resolution) == "resolved_" \o resolution

\* x || y
OrElse(x, y) == IF Missing(x) THEN y ELSE x

\* The request arrives: the two validation returns, then the conflict fetch
\* is issued.
ResolveCall(s, body) ==
    /\ req[s].pc = "idle"
    /\ \A q \in Slots : q < s => req[q].pc # "idle"
    /\ calls.resolve < MaxResolves
    /\ calls' = [calls EXCEPT !.resolve = @ + 1]
    /\ IF MissingId(body.conflict_id) \/ Missing(body.dev_id)
          \/ Missing(body.resolution)
       THEN /\ response' = "400_required"
            /\ UNCHANGED req
       ELSE IF body.resolution \notin validResolutions
       THEN /\ response' = "400_invalid"
            /\ UNCHANGED req
       ELSE /\ req' = [req EXCEPT ![s] = [IdleReq EXCEPT !.pc = "fetch",
                                                          !.body = body]]
            /\ response' = "none"
    /\ dbWrite' = "none"
    /\ UNCHANGED <<store, conflicts, notifications, nextId, flagReq, effects>>
    /\ UNCHANGED <<sweepVars, routerVars, toolVars>>

\* conflict.status !== 'pending' is the 'already resolved' return.
StillPendingMut(c) == TRUE

StillPending(c) == c.status = "pending"

\* Whether the resolution awaits a typed-store write before the status update.
HasEffectMut(resolution, table) == resolution # "dismiss"

HasEffect(resolution, table) ==
    \/ resolution = "update"
    \/ resolution = "both_valid" /\ table = "dev_ai_knowledge"

ActionTaken(resolution, table) ==
    CASE resolution = "update" -> "Updated record with new content"
      [] resolution = "both_valid" /\ table = "dev_ai_knowledge" ->
            "Created new knowledge record - both are valid"
      [] resolution = "both_valid" -> Null
      [] resolution = "keep_existing" ->
            "Kept existing record, discarded new content"
      [] OTHER -> "Conflict dismissed"

\* The datastore runs the fetch; the handler checks found / still pending and
\* runs on to its next await: the typed-store write (its timestamp is read
\* here) or, for a resolution without one, the status update.
ResolveFetch(s) ==
    /\ req[s].pc = "fetch"
    /\ LET c == FetchConflict(req[s].body.conflict_id)
           r == req[s].body.resolution
       IN IF c = NoConflict
          THEN /\ response' = "404"
               /\ req' = [req EXCEPT ![s] = IdleReq]
          ELSE IF ~StillPending(c)
          THEN /\ response' = "400_already"
               /\ req' = [req EXCEPT ![s] = IdleReq]
          ELSE /\ req' = [req EXCEPT ![s] =
                    [@ EXCEPT !.pc = IF HasEffect(r, c.existing_table)
                                     THEN "effect" ELSE "mark",
                              !.conflict = c,
                              !.statusUpdate = StatusUpdate(r),
                              !.actionTaken = ActionTaken(r, c.existing_table)]]
               /\ response' = "none"
    /\ dbWrite' = "none"
    /\ UNCHANGED <<store, conflicts, notifications, nextId, flagReq, calls,
                   effects>>
    /\ UNCHANGED <<sweepVars, routerVars, toolVars>>

\* The datastore runs the typed-store write of 'update' or 'both_valid'; its
\* result is not inspected, and the handler issues the status update.
ResolveEffect(s, ok) ==
    /\ req[s].pc = "effect"
    /\ LET c == req[s].conflict
           t == c.existing_table
       IN IF ~ok
          THEN UNCHANGED <<store, nextId, effects>>
          ELSE /\ effects' = [effects EXCEPT ![c.id] = @ + 1]
               /\ IF req[s].body.resolution = "update"
                  THEN /\ store' = UpdateContent(store, t, c.existing_id,
                                                 c.new_content, now)
                       /\ UNCHANGED nextId
                  ELSE /\ store' = InsertRow(store, "dev_ai_knowledge",
                                Row(nextId["dev_ai_knowledge"], c.project_id,
                                    c.new_content,
                                    OrElse(c.new_source, "conflict_resolution"),
                                    now))
                       /\ nextId' = [nextId EXCEPT !["dev_ai_knowledge"] = @ + 1]
    /\ req' = [req EXCEPT ![s].pc = "mark"]
    /\ response' = "none"
    /\ dbWrite' = IF ok THEN "ok" ELSE "error"
    /\ UNCHANGED <<conflicts, notifications, flagReq, calls>>
    /\ UNCHANGED <<sweepVars, routerVars, toolVars>>

\* The datastore runs the status update; its result is not inspected, and the
\* handler answers 'Conflict resolved'.
ResolveMark(s, ok) ==
    /\ req[s].pc = "mark"
    /\ IF ok
       THEN conflicts' = MarkConflict(conflicts, req[s].body.conflict_id,
                            req[s].statusUpdate,
                            OrElse(req[s].body.resolution_notes,
                                   req[s].actionTaken),
                            req[s].body.dev_id, now)
       ELSE UNCHANGED conflicts
    /\ req' = [req EXCEPT ![s] = IdleReq]
    /\ response' = "200_resolved"
    /\ dbWrite' = IF ok THEN "ok" ELSE "error"
    /\ UNCHANGED <<store, notifications, nextId, flagReq, calls, effects>>
    /\ UNCHANGED <<sweepVars, routerVars, toolVars>>

(***************************************************************************)
(* The gate's specification: the conflict routes over two existing records *)
(* per table, the sweeps at rest.                                          *)
(***************************************************************************)
\* A sweep between two cycles: the flag, the step the cycle is at, the table
\* index of cleanAllDuplicates and whether the step the sweep took last met
\* no failure.
IdleSweep == [isRunning |-> FALSE, pc |-> "idle", i |-> 0, ok |-> TRUE]

SweepIdle ==
    /\ sessions = {}
    /\ messages = {}
    /\ purge = {}
    /\ cleaner = IdleSweep
    /\ cleanup = IdleSweep
    /\ clock = 1

(***************************************************************************)
(* The extraction router at rest (extractionSorter.js).                    *)
(***************************************************************************)
MaxExtractions == 2
MaxCycles == 2
MaxCallers == 1
MaxWrites == 2

\* The slots of processPendingExtractions calls that can be in flight
\* together (setInterval starts a call whether or not the last one ended),
\* and the callers of the exported sortExtraction.
Cycles == 1..MaxCycles

Callers == (MaxCycles + 1)..(MaxCycles + MaxCallers)

\* A sortExtraction call belongs to the cycle that made it or to a caller.
Runs == Cycles \cup Callers

IdleCycle ==
    [pc |-> "idle", pending |-> <<>>, i |-> 0, processed |-> 0, errors |-> 0,
     skipped |-> 0, threw |-> {}]

IdleSort ==
    [pc |-> "idle", id |-> NoId, content |-> Null, targetTable |-> Null,
     finalProjectPath |-> Null, error |-> Null]

\* The value a call returns: the counts of a cycle, or sortExtraction's
\* { success }.
Result(kind, processed, errors, skipped, success) ==
    [kind |-> kind, processed |-> processed, errors |-> errors,
     skipped |-> skipped, success |-> success]

NoResult == Result("none", 0, 0, 0, FALSE)

RouterIdle ==
    /\ extractions = {}
    /\ cycle = [c \in Cycles |-> IdleCycle]
    /\ sorting = [r \in Runs |-> IdleSort]
    /\ written = {}
    /\ result = NoResult

(***************************************************************************)
(* The reroute scripts and the project detector at rest.                   *)
(***************************************************************************)
NoMatch == [path |-> Null, project_id |-> Null, client_id |-> Null]

\* run counts the runs of the script, and clean says that no datastore call
\* of them has failed.
IdleReroute ==
    [script |-> "none", pc |-> "idle", t |-> 0, items |-> <<>>, i |-> 0,
     itemPath |-> Null, candidate |-> Null, match |-> NoMatch, routed |-> 0,
     run |-> 0, clean |-> TRUE]

ResolverIdle ==
    /\ registered = {}
    /\ pathLookup = <<>>
    /\ reroute = IdleReroute

ScorerIdle ==
    detection =
       [pc |-> "idle", content |-> [type |-> "undefined", text |-> ""],
        fallbackProject |-> Null, k |-> 0, scores |-> <<>>,
        bestProject |-> Null, bestScore |-> 0,
        result |-> [project |-> Null, confidence |-> 0, reason |-> Null]]

\* sessionDetector.js, module state after load: no socket (ws = null), no
\* reconnect timer, startupTriggered false.  readyState holds every socket
\* the detector ever created ("none": not created yet); reconnectTimers and
\* startTimers count the setTimeout callbacks still pending.  History, read
\* by the properties only: errored holds the sockets whose 'error' fired;
\* scheduled counts the /start timers that messages have set, and ignored
\* the announcing messages that set none, since the latest 'open' or
\* manual trigger.
MaxSockets == 3
MaxStartTimers == 2
MaxScheduled == 2
MaxIgnored == 2
NoSocket == 0
SocketIds == 1..MaxSockets

IdleDetector ==
    [started |-> FALSE, ws |-> NoSocket,
     readyState |-> [s \in SocketIds |-> "none"],
     reconnectTimer |-> FALSE, reconnectTimers |-> 0,
     startupTriggered |-> FALSE, startTimers |-> 0,
     errored |-> {}, scheduled |-> 0, ignored |-> 0]

DetectorIdle == detector = IdleDetector

Init ==
    /\ store = GateInitStore
    /\ conflicts = {}
    /\ notifications = {}
    /\ nextId = [t \in TypedTables \cup
                         {"dev_ai_conflicts", "dev_ai_notifications"}
                    |-> 1 + Cardinality(IF t \in TypedTables
                                        THEN GateInitStore[t] ELSE {})]
    /\ flagReq = IdleFlag
    /\ req = [s \in Slots |-> IdleReq]
    /\ response = "none"
    /\ dbWrite = "none"
    /\ calls = [flag |-> 0, resolve |-> 0]
    /\ effects = [c \in 1..MaxFlags |-> 0]
    /\ SweepIdle
    /\ RouterIdle
    /\ ResolverIdle
    /\ ScorerIdle
    /\ DetectorIdle

Next ==
    \/ \E body \in FlagBodies : FlagCall(body)
    \/ \E ok \in BOOLEAN : FlagInsert(ok)
    \/ \E ok \in BOOLEAN : FlagNotify(ok)
    \/ \E s \in Slots, body \in ResolveBodies : ResolveCall(s, body)
    \/ \E s \in Slots : ResolveFetch(s)
    \/ \E s \in Slots, ok \in BOOLEAN : ResolveEffect(s, ok)
    \/ \E s \in Slots, ok \in BOOLEAN : ResolveMark(s, ok)

Spec == Init /\ [][Next]_vars

(***************************************************************************)
(* The sweeps: cleanerService.js and the cleaner of projectOrganizer.js.   *)
(* A title is its first 100 characters and the rest, so that               *)
(* substring(0, 100) is a real truncation.                                 *)
(***************************************************************************)
MaxRows == 2
MaxSessions == 1
MaxMessages == 1
MaxPurge == 1

\* The day of the sweep, and the retention windows in days.
Today == 20
RetentionEmptySessions == 1
RetentionMessagesCompleted == 14

Title(head, tail) == [head |-> head, tail |-> tail]

NoTitle == Title(Null, Null)

Titles == {Title("Fix", ""), Title("fix", ""), Title("fix", "A"), NoTitle}

\* String.prototype.toLowerCase on the text of the model.
LowerText(x) == IF x = "Fix" THEN "fix" ELSE IF x = "A" THEN "a" ELSE x

\* title.toLowerCase()
toLowerCase(title) == Title(LowerText(title.head), LowerText(title.tail))

\* title.substring(0, 100)
substring100(title) == Title(title.head, "")

\* title || ''
OrEmpty(title) == IF title = NoTitle THEN Title("", "") ELSE title

\* rows.order('created_at', { ascending: true }): r comes before q.
Before(r, q) ==
    \/ r.created_at < q.created_at
    \/ r.created_at = q.created_at /\ r.id < q.id

\* cleanerService.js: (k.project_id || 'global') + ':' + (k.title || '').toLowerCase()
CleanerKey(k) ==
    <<IF k.project_id = Null THEN "global" ELSE k.project_id,
      toLowerCase(OrEmpty(k.title))>>

\* projectOrganizer.js: `${k.project_path}:${k.title.toLowerCase()}`
CleanupKnowledgeKey(k) == <<k.project_path, toLowerCase(k.title)>>

\* projectOrganizer.js: t.project_path + ':' + (t.title || '').toLowerCase()
CleanupTodoKey(t) == <<t.project_path, toLowerCase(OrEmpty(t.title))>>

\* projectOrganizer.js: `${row.project_path}:${title.toLowerCase().substring(0, 100)}`
AllDuplicatesKeyMut(row) ==
    <<"", substring100(toLowerCase(OrEmpty(row.title)))>>

AllDuplicatesKey(row) ==
    <<row.project_path, substring100(toLowerCase(OrEmpty(row.title)))>>

\* seen.has(key) ? duplicateIds.push(k.id) : seen.set(key, k.id)
\* The ids pushed: every row that has an earlier row with its key.
LaterOccurrences(rows, key) ==
    {r.id : r \in {r \in rows : \E q \in rows : key[q] = key[r] /\ Before(q, r)}}

\* if (seen.has(key)) duplicates.push(seen.get(key).id); seen.set(key, k)
\* The ids pushed: every row that has a later row with its key.
EarlierOccurrences(rows, key) ==
    {r.id : r \in {r \in rows : \E q \in rows : key[q] = key[r] /\ Before(r, q)}}

\* from(t).delete().in('id', ids)
DeleteRowsMut(st, t, ids) == st

DeleteRows(st, t, ids) == [st EXCEPT ![t] = {r \in @ : r.id \notin ids}]

\* Whether an approved purge request names this row.
Approved(t, id) ==
    \E p \in purge :
        p.table_name = t /\ id \in p.record_ids /\ p.status = "approved"

\* The environment (the router, the manual API, the session tracker) stores
\* rows, sessions and messages.
StoreRow(t, project, title) ==
    /\ clock <= MaxRows
    /\ store' = InsertRow(store, t,
                    TypedRow(nextId[t], project,
                             IF project = Null THEN Null ELSE "/var/www/p1",
                             title, "text", "extraction", clock))
    /\ nextId' = [nextId EXCEPT ![t] = @ + 1]
    /\ clock' = clock + 1
    /\ UNCHANGED <<toolVars, gateVars, routerVars, sessions, messages, purge,
                   cleaner, cleanup>>

StoreSession(status, started) ==
    /\ Cardinality(sessions) < MaxSessions
    /\ sessions' = sessions \cup
          {[id |-> Cardinality(sessions) + 1, status |-> status,
            started_at |-> started]}
    /\ UNCHANGED <<store, nextId, toolVars, gateVars, routerVars, messages,
                   purge, cleaner, cleanup, clock>>

StoreMessage(sid, created) ==
    /\ nextId["dev_ai_messages"] <= MaxMessages
    /\ messages' = messages \cup
          {[id |-> nextId["dev_ai_messages"], session_id |-> sid,
            created_at |-> created]}
    /\ nextId' = [nextId EXCEPT !["dev_ai_messages"] = @ + 1]
    /\ UNCHANGED <<store, toolVars, gateVars, routerVars, sessions, purge,
                   cleaner, cleanup, clock>>

(***************************************************************************)
(* cleanerService.js                                                       *)
(***************************************************************************)
\* if (isRunning) return: the guard of runCycle and of runCleanup.
RunningMut(sweep) == FALSE

Running(sweep) == sweep.isRunning

\* The cycle after a step: the next step, with the outcome of this one.
SweepStepMut(sweep, ok, next) ==
    [sweep EXCEPT !.pc = IF ok THEN next ELSE "idle", !.ok = ok]

SweepStep(sweep, ok, next) == [sweep EXCEPT !.pc = next, !.ok = ok]

\* finally { isRunning = false }
Finally(sweep) ==
    [sweep EXCEPT !.isRunning = FALSE, !.pc = "idle", !.i = 0]

\* runCycle: the isRunning guard, then isRunning = true.
CleanerStart ==
    /\ ~Running(cleaner)
    /\ cleaner' = [IdleSweep EXCEPT !.isRunning = TRUE, !.pc = "sessions"]
    /\ UNCHANGED <<store, nextId, toolVars, gateVars, routerVars, sessions,
                   messages, purge, cleanup, clock>>

\* runCycle called by a timer while a cycle is running: 'Cleaner already
\* running, skipping', and the call returns.
CleanerSkip ==
    /\ Running(cleaner)
    /\ UNCHANGED vars

\* cleanEmptySessions: the active sessions started before the cutoff are
\* marked stale; a failed select returns 0.
CleanerEmptySessions(ok) ==
    /\ cleaner.pc = "sessions"
    /\ LET cutoff == Today - RetentionEmptySessions
           old == {x \in sessions : x.status = "active" /\ x.started_at < cutoff}
       IN sessions' = IF ok
                      THEN {IF x \in old THEN [x EXCEPT !.status = "stale"]
                                         ELSE x : x \in sessions}
                      ELSE sessions
    /\ cleaner' = SweepStep(cleaner, ok, "knowledge")
    /\ UNCHANGED <<store, nextId, toolVars, gateVars, routerVars, messages,
                   purge, cleanup, clock>>

\* cleanDuplicateKnowledge, then the finally block of runCycle.
CleanerDuplicateKnowledge(ok) ==
    /\ cleaner.pc = "knowledge"
    /\ LET duplicateIds == LaterOccurrences(store["dev_ai_knowledge"],
                              [k \in store["dev_ai_knowledge"] |-> CleanerKey(k)])
       IN /\ store' = IF ok
                      THEN DeleteRows(store, "dev_ai_knowledge", duplicateIds)
                      ELSE store
    /\ cleaner' = Finally(SweepStep(cleaner, ok, "idle"))
    /\ UNCHANGED <<nextId, toolVars, gateVars, routerVars, sessions, messages,
                   purge, cleanup, clock>>

(***************************************************************************)
(* The cleaner of projectOrganizer.js                                      *)
(***************************************************************************)
\* runCleanup: the isRunning guard, then isRunning = true.
CleanupStart ==
    /\ ~Running(cleanup)
    /\ cleanup' = [IdleSweep EXCEPT !.isRunning = TRUE, !.pc = "sessions"]
    /\ UNCHANGED <<store, nextId, toolVars, gateVars, routerVars, sessions,
                   messages, purge, cleaner, clock>>

\* runCleanup called by a timer while a cycle is running: 'Cleanup already
\* running, skipping', and the call returns.
CleanupSkip ==
    /\ Running(cleanup)
    /\ UNCHANGED vars

\* cleanEmptySessions: the active sessions started before the cutoff that
\* have no message are deleted.
CleanupEmptySessions(ok) ==
    /\ cleanup.pc = "sessions"
    /\ LET cutoff == Today - RetentionEmptySessions
           empty == {x \in sessions :
                        /\ x.status = "active" /\ x.started_at < cutoff
                        /\ ~\E m \in messages : m.session_id = x.id}
       IN /\ sessions' = IF ok THEN sessions \ empty ELSE sessions
    /\ cleanup' = SweepStep(cleanup, ok, "messages")
    /\ UNCHANGED <<store, nextId, toolVars, gateVars, routerVars, messages,
                   purge, cleaner, clock>>

\* sessions?.filter(s => s.status === 'completed').map(s => s.id), over the
\* sessions of the old messages.
CompletedSessionIdsMut(oldMessages) ==
    {x.id : x \in {x \in sessions : \E m \in oldMessages : m.session_id = x.id}}

CompletedSessionIds(oldMessages) ==
    {x.id : x \in {x \in sessions :
                      /\ x.status = "completed"
                      /\ \E m \in oldMessages : m.session_id = x.id}}

\* archiveOldMessages: the messages created before the cutoff whose session
\* is completed are deleted.
CleanupArchiveOldMessages(ok) ==
    /\ cleanup.pc = "messages"
    /\ LET cutoff == Today - RetentionMessagesCompleted
           oldMessages == {m \in messages : m.created_at < cutoff}
           completedSessionIds == CompletedSessionIds(oldMessages)
           messagesToArchive ==
              {m \in oldMessages : m.session_id \in completedSessionIds}
       IN /\ messages' = IF ok THEN messages \ messagesToArchive ELSE messages
    /\ cleanup' = SweepStep(cleanup, ok, "knowledge")
    /\ UNCHANGED <<store, nextId, toolVars, gateVars, routerVars, sessions,
                   purge, cleaner, clock>>

\* cleanDuplicateKnowledge: k.title.toLowerCase() throws on a row without a
\* title, and the catch returns 0 with nothing deleted.
CleanupDuplicateKnowledge(ok) ==
    /\ cleanup.pc = "knowledge"
    /\ LET knowledge == store["dev_ai_knowledge"]
           threw == \E k \in knowledge : k.title = NoTitle
           duplicates ==
              IF threw \/ ~ok
              THEN {}
              ELSE EarlierOccurrences(knowledge,
                        [k \in knowledge |-> CleanupKnowledgeKey(k)])
       IN /\ store' = DeleteRows(store, "dev_ai_knowledge", duplicates)
          /\ cleanup' = SweepStep(cleanup, ok /\ ~threw, "todos")
    /\ UNCHANGED <<nextId, toolVars, gateVars, routerVars, sessions, messages,
                   purge, cleaner, clock>>

\* cleanDuplicateTodos; cleanAllDuplicates starts at the first of its tables.
CleanupDuplicateTodos(ok) ==
    /\ cleanup.pc = "todos"
    /\ LET todos == store["dev_ai_todos"]
           duplicates ==
              EarlierOccurrences(todos, [t \in todos |-> CleanupTodoKey(t)])
       IN /\ store' = IF ok THEN DeleteRows(store, "dev_ai_todos", duplicates)
                            ELSE store
    /\ cleanup' = [SweepStep(cleanup, ok, "all") EXCEPT !.i = 1]
    /\ UNCHANGED <<nextId, toolVars, gateVars, routerVars, sessions, messages,
                   purge, cleaner, clock>>

\* The tables of cleanAllDuplicates that the model holds, in its order.
AllDuplicatesTables == <<"dev_ai_todos", "dev_ai_bugs">>

\* cleanAllDuplicates: the pass over one table of its list, inside that
\* table's try block; after the last table, the finally block of runCleanup.
CleanupAllDuplicates(ok) ==
    /\ cleanup.pc = "all"
    /\ LET t == AllDuplicatesTables[cleanup.i]
           duplicates ==
              LaterOccurrences(store[t],
                  [row \in store[t] |-> AllDuplicatesKey(row)])
       IN /\ store' = IF ok THEN DeleteRows(store, t, duplicates) ELSE store
          /\ cleanup' = IF cleanup.i = Len(AllDuplicatesTables)
                        THEN Finally(SweepStep(cleanup, ok, "idle"))
                        ELSE [SweepStep(cleanup, ok, "all")
                                 EXCEPT !.i = @ + 1]
    /\ UNCHANGED <<nextId, toolVars, gateVars, routerVars, sessions, messages,
                   purge, cleaner, clock>>

(***************************************************************************)
(* dev_ai_purge_requests (migration 002).  The repository declares the     *)
(* table; the flag, review and execution steps are described by the        *)
(* specification only.                                                     *)
(***************************************************************************)
\* The flagging actor names a table and a set of its rows.
FlagPurge(t, ids) ==
    /\ Cardinality(purge) < MaxPurge
    /\ ids # {}
    /\ ids \subseteq {r.id : r \in store[t]}
    /\ purge' = purge \cup
          {[id |-> Cardinality(purge) + 1, table_name |-> t, record_ids |-> ids,
            status |-> "pending", flagged_by |-> "susan", reviewed_by |-> Null,
            reviewed_at |-> 0, executed_at |-> 0]}
    /\ UNCHANGED <<store, nextId, toolVars, gateVars, routerVars, sessions,
                   messages, cleaner, cleanup, clock>>

\* A reviewer sets a pending request to approved or rejected.
ReviewPurge(p, decision) ==
    /\ p \in purge
    /\ p.status = "pending"
    /\ purge' = (purge \ {p}) \cup
          {[p EXCEPT !.status = decision, !.reviewed_by = "dev1",
                     !.reviewed_at = Today]}
    /\ UNCHANGED <<store, nextId, toolVars, gateVars, routerVars, sessions,
                   messages, cleaner, cleanup, clock>>

\* The execution step deletes the rows of an approved request and records
\* the execution timestamp on it.
ExecutePurge(p) ==
    /\ p \in purge
    /\ p.status = "approved"
    /\ p.executed_at = 0
    /\ store' = DeleteRows(store, p.table_name, p.record_ids)
    /\ purge' = (purge \ {p}) \cup {[p EXCEPT !.executed_at = Today]}
    /\ UNCHANGED <<nextId, toolVars, gateVars, routerVars, sessions, messages,
                   cleaner, cleanup, clock>>

(***************************************************************************)
(* The sweeps' specification: the environment stores rows, sessions and    *)
(* messages, the two cleaners cycle, purge requests are flagged, reviewed  *)
(* and executed; the conflict routes are at rest.                          *)
(***************************************************************************)
SweepInit ==
    /\ store = [t \in TypedTables |-> {}]
    /\ nextId = [t \in TypedTables \cup
                         {"dev_ai_conflicts", "dev_ai_notifications",
                          "dev_ai_messages"} |-> 1]
    /\ conflicts = {}
    /\ notifications = {}
    /\ flagReq = IdleFlag
    /\ req = [s \in Slots |-> IdleReq]
    /\ response = "none"
    /\ dbWrite = "none"
    /\ calls = [flag |-> 0, resolve |-> 0]
    /\ effects = [c \in 1..MaxFlags |-> 0]
    /\ SweepIdle
    /\ RouterIdle
    /\ ResolverIdle
    /\ ScorerIdle
    /\ DetectorIdle

SweepNext ==
    \/ \E t \in TypedTables, project \in {"p1"}, title \in Titles :
          StoreRow(t, project, title)
    \/ \E status \in {"active", "completed"},
          started \in {Today - RetentionEmptySessions - 1,
                       Today - RetentionEmptySessions} :
          StoreSession(status, started)
    \/ \E x \in sessions,
          created \in {Today - RetentionMessagesCompleted - 1,
                       Today - RetentionMessagesCompleted} :
          StoreMessage(x.id, created)
    \/ CleanerStart
    \/ CleanerEmptySessions(TRUE)
    \/ CleanerDuplicateKnowledge(TRUE)
    \/ CleanupStart
    \/ CleanupEmptySessions(TRUE)
    \/ CleanupArchiveOldMessages(TRUE)
    \/ CleanupDuplicateKnowledge(TRUE)
    \/ CleanupDuplicateTodos(TRUE)
    \/ CleanupAllDuplicates(TRUE)
    \/ \E t \in Tables, ids \in SUBSET (1..MaxRows) : FlagPurge(t, ids)
    \/ \E p \in purge, decision \in {"approved", "rejected"} :
          ReviewPurge(p, decision)
    \/ \E p \in purge : ExecutePurge(p)

SpecSweep == SweepInit /\ [][SweepNext]_vars

(***************************************************************************)
(* The sweeps' cycles: rows of two attribution scopes, sessions and        *)
(* messages are stored, the two cleaners cycle over a datastore that may   *)
(* fail any of their steps, and their timers fire while a cycle runs.      *)
(***************************************************************************)
CycleNext ==
    \/ \E t \in TypedTables, project \in {"p1", Null}, title \in Titles :
          StoreRow(t, project, title)
    \/ \E status \in {"active", "completed"},
          started \in {Today - RetentionEmptySessions - 1,
                       Today - RetentionEmptySessions} :
          StoreSession(status, started)
    \/ \E x \in sessions,
          created \in {Today - RetentionMessagesCompleted - 1,
                       Today - RetentionMessagesCompleted} :
          StoreMessage(x.id, created)
    \/ CleanerStart
    \/ CleanerSkip
    \/ \E ok \in BOOLEAN : CleanerEmptySessions(ok)
    \/ \E ok \in BOOLEAN : CleanerDuplicateKnowledge(ok)
    \/ CleanupStart
    \/ CleanupSkip
    \/ \E ok \in BOOLEAN : CleanupEmptySessions(ok)
    \/ \E ok \in BOOLEAN : CleanupArchiveOldMessages(ok)
    \/ \E ok \in BOOLEAN : CleanupDuplicateKnowledge(ok)
    \/ \E ok \in BOOLEAN : CleanupDuplicateTodos(ok)
    \/ \E ok \in BOOLEAN : CleanupAllDuplicates(ok)

SpecCycle == SweepInit /\ [][CycleNext]_vars

(***************************************************************************)
(* The extraction router: extractionSorter.js.                             *)
(*                                                                         *)
(* processPendingExtractions selects the pending extractions and handles   *)
(* them one by one; sortExtraction, which it calls and which the module    *)
(* also exports, inserts the typed-store row and marks the extraction.     *)
(* The steps of the loop between two awaits are taken one item at a time.  *)
(***************************************************************************)
\* .limit(50)
BatchLimit == 50

\* The registered path of project p1 and a path that is not registered.
P1Path == "/var/www/p1"
OtherPath == "/srv/unknown"

\* A directory below the registered path of project p1.
P1SubPath == "/var/www/p1/src"

\* dev_project_paths and dev_projects.
ProjectPaths == {[path |-> P1Path, project_id |-> "p1"]}

Projects == {[id |-> "p1", client_id |-> "c1", platform_id |-> "pf1"]}

\* The texts of the model.
PlainText == "Use tabs, not spaces"
P1Text == "Fix the p1 login redirect"
TwoLineText == "Fix the p1 login redirect<LF>See auth.js"
ShortText == "ok"
PipeText == "| id | name |"
AnsiText == "<ESC>[31mUse tabs, not spaces<ESC>[0m"
LongText == "Lorem ipsum ... (6000 characters)"

\* text.length
Length(text) ==
    CASE text = "" -> 0
      [] text = PlainText -> 20
      [] text = P1Text -> 25
      [] text = TwoLineText -> 37
      [] text = ShortText -> 2
      [] text = PipeText -> 13
      [] text = AnsiText -> 29
      [] text = LongText -> 6000

\* shared/stripAnsi.js: the escape sequences of a string are removed.
stripAnsi(str) == IF str = AnsiText THEN PlainText ELSE str

\* shared/stripAnsi.js ends with module.exports = stripAnsi: what require()
\* returns is the function itself, an object without a stripAnsi property.
StripAnsiModule == [type |-> "function", properties |-> {}]

\* const { name } = require(module)
Destructured(module, name) ==
    IF name \in module.properties THEN "function" ELSE "undefined"

\* const { stripAnsi } = require('../../shared/stripAnsi')
stripAnsiImport == Destructured(StripAnsiModule, "stripAnsi")

\* GARBAGE_PATTERNS.some(p => p.test(text)), over the texts of the model.
MatchesGarbagePattern(text) == text = PipeText

\* extraction.content || ''
OrEmptyText(content) == IF content = Null THEN "" ELSE content

isGarbage(text) ==
    \/ text = "" \/ Length(text) < 10
    \/ Length(text) > 5000
    \/ MatchesGarbagePattern(text)

\* CATEGORY_TO_TABLE[category] || 'dev_ai_knowledge'
TargetTableMut(category) ==
    CASE category \in {"todo", "bug", "issue"} -> "dev_ai_bugs"
      [] category = "decision" -> "dev_ai_decisions"
      [] category = "lesson" -> "dev_ai_lessons"
      [] OTHER -> "dev_ai_knowledge"

TargetTable(category) ==
    CASE category = "todo" -> "dev_ai_todos"
      [] category \in {"bug", "issue"} -> "dev_ai_bugs"
      [] category \in {"knowledge", "solution", "config", "infrastructure"}
            -> "dev_ai_knowledge"
      [] category = "decision" -> "dev_ai_decisions"
      [] category = "lesson" -> "dev_ai_lessons"
      [] OTHER -> "dev_ai_knowledge"

\* The tables the router writes.
RouterTables ==
    {"dev_ai_todos", "dev_ai_bugs", "dev_ai_knowledge", "dev_ai_decisions",
     "dev_ai_lessons"}

\* content.substring(0, 200).split('\n')[0]
FirstLine(content) == IF content = TwoLineText THEN P1Text ELSE content

\* projectDetector.detectProject(content): the project whose signature the
\* content carries, or null.
DetectProject(content) ==
    IF content \in {P1Text, TwoLineText} THEN P1Path ELSE Null

NoRouting == [client_id |-> Null, platform_id |-> Null, project_id |-> Null]

\* getRoutingFromPath: the project registered under exactly this path.
getRoutingFromPath(projectPath) ==
    IF projectPath # Null
       /\ \E pp \in ProjectPaths : pp.path = projectPath
    THEN LET pathInfo == CHOOSE pp \in ProjectPaths : pp.path = projectPath
             proj == CHOOSE q \in Projects : q.id = pathInfo.project_id
         IN [client_id |-> proj.client_id, platform_id |-> proj.platform_id,
             project_id |-> proj.id]
    ELSE NoRouting

\* insertTodo: the ids the extraction carries, unless it has no client id
\* and its path is registered.
TodoRouting(extraction, projectPath) ==
    IF extraction.client_id = Null
       /\ getRoutingFromPath(projectPath) # NoRouting
    THEN getRoutingFromPath(projectPath)
    ELSE [client_id |-> extraction.client_id,
          platform_id |-> extraction.platform_id,
          project_id |-> extraction.project_id]

\* insertTodo: projectPath || '/var/www/NextBid_Dev/dev-studio-5000'
DefaultProjectPath == "/var/www/NextBid_Dev/dev-studio-5000"

\* The row that insertTodo, insertBug, insertKnowledge, insertDecision or
\* insertLesson hands to the datastore.
RouterRow(t, id, extraction, content, projectPath) ==
    LET routing == IF t = "dev_ai_todos"
                   THEN TodoRouting(extraction, projectPath)
                   ELSE getRoutingFromPath(projectPath)
    IN [id |-> id,
        project_path |-> IF t = "dev_ai_todos" /\ projectPath = Null
                         THEN DefaultProjectPath ELSE projectPath,
        title |-> FirstLine(content),
        content |-> content,
        source_session_id |-> extraction.session_id,
        client_id |-> routing.client_id,
        platform_id |-> routing.platform_id,
        project_id |-> routing.project_id]

\* The extraction with this id.
Extraction(id) == CHOOSE e \in extractions : e.id = id

\* from('dev_ai_smart_extractions').update({status, ...}).eq('id', id)
SetStatus(es, id, status, error) ==
    {IF e.id = id THEN [e EXCEPT !.status = status, !.error = error] ELSE e :
        e \in es}

\* The extractions the capture collaborator hands over.
Captured ==
    {[category |-> c[1], content |-> c[2], project_path |-> c[3]] :
        c \in {<<"todo", PlainText, Null>>,
               <<"todo", P1Text, P1Path>>,
               <<"bug", TwoLineText, P1Path>>,
               <<"issue", P1Text, Null>>,
               <<"decision", PlainText, OtherPath>>,
               <<"lesson", P1Text, P1Path>>,
               <<"knowledge", TwoLineText, P1Path>>,
               <<Null, PlainText, Null>>,
               <<"note", P1Text, P1Path>>,
               <<"knowledge", Null, P1Path>>,
               <<"knowledge", ShortText, P1Path>>,
               <<"knowledge", PlainText, P1SubPath>>}}

Capture(x) ==
    /\ Cardinality(extractions) < MaxExtractions
    /\ extractions' = extractions \cup
          {[id |-> Cardinality(extractions) + 1, category |-> x.category,
            content |-> x.content, project_path |-> x.project_path,
            session_id |-> "s1", client_id |-> Null, platform_id |-> Null,
            project_id |-> Null, status |-> "pending", error |-> Null]}
    /\ result' = NoResult
    /\ UNCHANGED <<store, nextId, toolVars, gateVars, sweepVars, cycle,
                   sorting, written>>

\* The ids of a set of extractions in creation order.
RECURSIVE InCreationOrder(_)
InCreationOrder(ids) ==
    IF ids = {} THEN <<>>
    ELSE LET first == CHOOSE x \in ids : \A y \in ids : x <= y
         IN <<first>> \o InCreationOrder(ids \ {first})

\* The first n elements of a sequence.
Limit(seq, n) == IF Len(seq) <= n THEN seq ELSE SubSeq(seq, 1, n)

\* .eq('status', 'pending').order('created_at', { ascending: true }).limit(50)
PendingBatchMut(es) == Limit(InCreationOrder({e.id : e \in es}), BatchLimit)

PendingBatch(es) ==
    Limit(InCreationOrder({e.id : e \in {x \in es : x.status = "pending"}}),
          BatchLimit)

\* setInterval(processPendingExtractions, 30000): the timer starts a call,
\* which sends its select.
Tick(c) ==
    /\ cycle[c].pc = "idle"
    /\ \A d \in Cycles : d < c => cycle[d].pc # "idle"
    /\ cycle' = [cycle EXCEPT ![c] = [IdleCycle EXCEPT !.pc = "select"]]
    /\ result' = NoResult
    /\ UNCHANGED <<store, nextId, toolVars, gateVars, sweepVars, extractions,
                   sorting, written>>

\* The datastore answers the select: on {error} the call returns one error,
\* on an empty result it returns zero counts, otherwise the loop begins.
CycleSelect(c, ok) ==
    /\ cycle[c].pc = "select"
    /\ LET pending == PendingBatch(extractions)
       IN IF ~ok
          THEN /\ result' = Result("early", 0, 1, 0, FALSE)
               /\ cycle' = [cycle EXCEPT ![c] = IdleCycle]
          ELSE IF pending = <<>>
          THEN /\ result' = Result("early", 0, 0, 0, FALSE)
               /\ cycle' = [cycle EXCEPT ![c] = IdleCycle]
          ELSE /\ result' = NoResult
               /\ cycle' = [cycle EXCEPT ![c] =
                              [@ EXCEPT !.pc = "loop", !.pending = pending,
                                        !.i = 1]]
    /\ UNCHANGED <<store, nextId, toolVars, gateVars, sweepVars, extractions,
                   sorting, written>>

\* catch (err) { errors++ } of the loop, then the next item.
AfterThrowMut(cy, id) ==
    [cy EXCEPT !.errors = @ + 1, !.threw = @ \cup {id},
               !.i = Len(cy.pending) + 1]

AfterThrow(cy, id) ==
    [cy EXCEPT !.errors = @ + 1, !.threw = @ \cup {id}, !.i = @ + 1]

\* The synchronous start of sortExtraction: the target table, then either
\* the detector is asked, or the insert function is entered, where
\* content.substring throws on a content that is not a string.
SortStart(extraction, content) ==
    LET begun == [IdleSort EXCEPT !.id = extraction.id, !.content = content,
                                  !.targetTable = TargetTable(extraction.category),
                                  !.finalProjectPath = extraction.project_path]
    IN IF extraction.project_path = Null /\ content \notin {Null, ""}
       THEN [begun EXCEPT !.pc = "detect"]
       ELSE IF content = Null
       THEN [begun EXCEPT !.pc = "fail", !.error = "TypeError"]
       ELSE [begun EXCEPT !.pc = "insert"]

\* One item of the loop, up to its first await.  The call of stripAnsi
\* throws when the imported binding is not a function; a garbage item is
\* marked skipped; any other item is handed to sortExtraction.
CycleItem(c) ==
    /\ cycle[c].pc = "loop"
    /\ cycle[c].i <= Len(cycle[c].pending)
    /\ LET extraction == Extraction(cycle[c].pending[cycle[c].i])
           cleanContent == stripAnsi(OrEmptyText(extraction.content))
       IN IF stripAnsiImport # "function"
          THEN /\ cycle' = [cycle EXCEPT ![c] = AfterThrow(@, extraction.id)]
               /\ UNCHANGED <<extractions, sorting>>
          ELSE IF isGarbage(cleanContent)
          THEN /\ extractions' =
                     SetStatus(extractions, extraction.id, "skipped",
                               extraction.error)
               /\ cycle' = [cycle EXCEPT ![c] =
                              [@ EXCEPT !.skipped = @ + 1, !.i = @ + 1]]
               /\ UNCHANGED sorting
          ELSE /\ sorting' = [sorting EXCEPT ![c] =
                                SortStart(extraction, cleanContent)]
               /\ cycle' = [cycle EXCEPT ![c] = [@ EXCEPT !.pc = "sorting"]]
               /\ UNCHANGED extractions
    /\ result' = NoResult
    /\ UNCHANGED <<store, nextId, toolVars, gateVars, sweepVars, written>>

\* The loop is over: the call returns { processed, errors, skipped }.
CycleReturn(c) ==
    /\ cycle[c].pc = "loop"
    /\ cycle[c].i > Len(cycle[c].pending)
    /\ result' = Result("counts", cycle[c].processed, cycle[c].errors,
                        cycle[c].skipped, FALSE)
    /\ cycle' = [cycle EXCEPT ![c] = IdleCycle]
    /\ UNCHANGED <<store, nextId, toolVars, gateVars, sweepVars, extractions,
                   sorting, written>>

\* A caller of the exported sortExtraction hands it a pending extraction.
SortCall(r, id) ==
    /\ r \in Callers
    /\ sorting[r].pc = "idle"
    /\ \E e \in extractions : e.id = id /\ e.status = "pending"
    /\ Cardinality(written) < MaxWrites
    /\ sorting' = [sorting EXCEPT ![r] =
                      SortStart(Extraction(id), Extraction(id).content)]
    /\ result' = NoResult
    /\ UNCHANGED <<store, nextId, toolVars, gateVars, sweepVars, extractions,
                   cycle, written>>

\* The detector answers: its server_path, if any, is the project path.
SortDetect(r) ==
    /\ sorting[r].pc = "detect"
    /\ sorting' = [sorting EXCEPT ![r] =
                      [@ EXCEPT !.pc = "insert",
                                !.finalProjectPath =
                                    DetectProject(sorting[r].content)]]
    /\ result' = NoResult
    /\ UNCHANGED <<store, nextId, toolVars, gateVars, sweepVars, extractions,
                   cycle, written>>

\* The datastore runs the insert into the target table; its answer is not
\* inspected, and sortExtraction sends the update to 'processed'.
SortInsert(r, ok) ==
    /\ sorting[r].pc = "insert"
    /\ LET t == sorting[r].targetTable
           row == RouterRow(t, nextId[t], Extraction(sorting[r].id),
                            sorting[r].content, sorting[r].finalProjectPath)
       IN IF ok
          THEN /\ store' = InsertRow(store, t, row)
               /\ nextId' = [nextId EXCEPT ![t] = @ + 1]
               /\ written' = written \cup
                     {[extraction |-> sorting[r].id, table |-> t,
                       row |-> row.id]}
          ELSE UNCHANGED <<store, nextId, written>>
    /\ sorting' = [sorting EXCEPT ![r] = [@ EXCEPT !.pc = "mark"]]
    /\ result' = NoResult
    /\ UNCHANGED <<toolVars, gateVars, sweepVars, extractions, cycle>>

\* sortExtraction returns to the loop, which counts its result, or to the
\* caller of the export.
Returned(r, success) ==
    /\ sorting' = [sorting EXCEPT ![r] = IdleSort]
    /\ IF r \in Cycles
       THEN /\ cycle' = [cycle EXCEPT ![r] =
                           [@ EXCEPT !.pc = "loop", !.i = @ + 1,
                                     !.processed =
                                         IF success THEN @ + 1 ELSE @,
                                     !.errors =
                                         IF success THEN @ ELSE @ + 1]]
            /\ result' = NoResult
       ELSE /\ result' = Result("sort", 0, 0, 0, success)
            /\ UNCHANGED cycle

\* The datastore runs the update to 'processed'; its answer is not
\* inspected, and sortExtraction returns { success: true }.
SortMark(r, ok) ==
    /\ sorting[r].pc = "mark"
    /\ extractions' =
          IF ok
          THEN SetStatus(extractions, sorting[r].id, "processed",
                         Extraction(sorting[r].id).error)
          ELSE extractions
    /\ Returned(r, TRUE)
    /\ UNCHANGED <<store, nextId, toolVars, gateVars, sweepVars, written>>

\* The catch of sortExtraction: the datastore runs the update to 'failed'
\* with the error message, and sortExtraction returns { success: false }.
SortFail(r, ok) ==
    /\ sorting[r].pc = "fail"
    /\ extractions' =
          IF ok
          THEN SetStatus(extractions, sorting[r].id, "failed", sorting[r].error)
          ELSE extractions
    /\ Returned(r, FALSE)
    /\ UNCHANGED <<store, nextId, toolVars, gateVars, sweepVars, written>>

\* The process stops and is started again: every call in flight is gone.
Crash ==
    /\ \/ \E c \in Cycles : cycle[c].pc # "idle"
       \/ \E r \in Runs : sorting[r].pc # "idle"
    /\ cycle' = [c \in Cycles |-> IdleCycle]
    /\ sorting' = [r \in Runs |-> IdleSort]
    /\ result' = NoResult
    /\ UNCHANGED <<store, nextId, toolVars, gateVars, sweepVars, extractions,
                   written>>

(***************************************************************************)
(* The router's specification: extractions arrive, timer ticks start       *)
(* cycles, callers use the exported sortExtraction, the process may stop;  *)
(* the conflict routes and the sweeps are at rest.                         *)
(***************************************************************************)
RouterInit ==
    /\ store = [t \in RouterTables |-> {}]
    /\ nextId = [t \in RouterTables |-> 1]
    /\ conflicts = {}
    /\ notifications = {}
    /\ flagReq = IdleFlag
    /\ req = [s \in Slots |-> IdleReq]
    /\ response = "none"
    /\ dbWrite = "none"
    /\ calls = [flag |-> 0, resolve |-> 0]
    /\ effects = [c \in 1..MaxFlags |-> 0]
    /\ SweepIdle
    /\ RouterIdle
    /\ ResolverIdle
    /\ ScorerIdle
    /\ DetectorIdle

RouterNext ==
    \/ \E x \in Captured : Capture(x)
    \/ \E c \in Cycles : Tick(c)
    \/ \E c \in Cycles, ok \in BOOLEAN : CycleSelect(c, ok)
    \/ \E c \in Cycles : CycleItem(c)
    \/ \E c \in Cycles : CycleReturn(c)
    \/ \E r \in Callers, id \in 1..MaxExtractions : SortCall(r, id)
    \/ \E r \in Runs : SortDetect(r)
    \/ \E r \in Runs, ok \in BOOLEAN : SortInsert(r, ok)
    \/ \E r \in Runs, ok \in BOOLEAN : SortMark(r, ok)
    \/ \E r \in Runs, ok \in BOOLEAN : SortFail(r, ok)
    \/ Crash

SpecRouter == RouterInit /\ [][RouterNext]_vars

(***************************************************************************)
(* The router under its timer alone: extractions arrive and setInterval    *)
(* keeps starting cycles.  A tick that is due fires, the datastore         *)
(* answers every select and, tried again and again, answers one without    *)
(* an error, and a cycle that can take its next item or return does so.    *)
(* No item of a cycle reaches sortExtraction (the call of stripAnsi        *)
(* throws first), so its steps are not part of this specification.         *)
(***************************************************************************)
TimerNext ==
    \/ \E x \in Captured : Capture(x)
    \/ \E c \in Cycles : Tick(c)
    \/ \E c \in Cycles, ok \in BOOLEAN : CycleSelect(c, ok)
    \/ \E c \in Cycles : CycleItem(c)
    \/ \E c \in Cycles : CycleReturn(c)

TimerFairness ==
    /\ \A c \in Cycles : WF_vars(Tick(c))
    /\ \A c \in Cycles : WF_vars(\E ok \in BOOLEAN : CycleSelect(c, ok))
    /\ \A c \in Cycles : SF_vars(CycleSelect(c, TRUE))
    /\ \A c \in Cycles : WF_vars(CycleItem(c))
    /\ \A c \in Cycles : WF_vars(CycleReturn(c))

SpecRouterFair == RouterInit /\ [][TimerNext]_vars /\ TimerFairness

(***************************************************************************)
(* The path resolver: reroute_by_path.js and reroute_windows.js.           *)
(*                                                                         *)
(* Each script loads the registered paths, longest first, and walks the    *)
(* four typed tables: the rows without a project id whose path resolves to *)
(* a registered path receive that path's project and client ids.  Paths    *)
(* are strings and are matched character by character, as in the code.     *)
(***************************************************************************)
\* The least element of a non-empty set of indexes.
Min(S) == CHOOSE m \in S : \A k \in S : m <= k

\* s.startsWith(p)
startsWith(s, p) == Len(p) <= Len(s) /\ SubSeq(s, 1, Len(p)) = p

\* s.indexOf(pattern), counted from 1; 0 when the pattern does not occur.
indexOf(s, pattern) ==
    LET at == {k \in 1..(Len(s) - Len(pattern) + 1) :
                  SubSeq(s, k, k + Len(pattern) - 1) = pattern}
    IN IF at = {} THEN 0 ELSE Min(at)

\* s.includes(pattern)
includes(s, pattern) == indexOf(s, pattern) # 0

\* s.replace(pattern, replacement), pattern a string: the first occurrence.
replace(s, pattern, replacement) ==
    LET k == indexOf(s, pattern)
    IN IF k = 0 THEN s
       ELSE SubSeq(s, 1, k - 1) \o replacement
               \o SubSeq(s, k + Len(pattern), Len(s))

\* s.replace(/\\/g, '/')
RECURSIVE replaceBackslashes(_)
replaceBackslashes(s) ==
    IF s = "" THEN ""
    ELSE (IF SubSeq(s, 1, 1) = "\\" THEN "/" ELSE SubSeq(s, 1, 1))
            \o replaceBackslashes(SubSeq(s, 2, Len(s)))

\* const TABLES, in the order main() walks them.
\* How often a script is run.
MaxRuns == 2

TABLES ==
    <<"dev_ai_knowledge", "dev_ai_todos", "dev_ai_bugs", "dev_ai_decisions">>

RerouteTables == {TABLES[k] : k \in DOMAIN TABLES}

\* dev_projects, as the scripts read it: id and client_id.
RerouteProjects ==
    {[id |-> "ai-team", client_id |-> "c1"],
     [id |-> "sub", client_id |-> "c2"],
     [id |-> "proj", client_id |-> "c3"],
     [id |-> "nextbid", client_id |-> "c4"]}

\* A row of dev_project_paths.
ProjectPath(path, project) == [path |-> path, project_id |-> project]

AiTeamPath == "/var/www/Studio/ai-team"
SubPath == "/var/www/Studio/ai-team/sub"
ProjPath == "/proj"
NextBidPath == "/var/www/NextBid_Dev"

\* The registries of the model: the two nested paths, alone and next to
\* unrelated paths, to a path of a deleted project and to a path without a
\* project.
Registries ==
    {{ProjectPath(AiTeamPath, "ai-team"), ProjectPath(SubPath, "sub")},
     {ProjectPath(ProjPath, "proj"), ProjectPath(NextBidPath, "nextbid")},
     {ProjectPath(AiTeamPath, "ai-team"), ProjectPath(SubPath, "sub"),
      ProjectPath(ProjPath, "proj"), ProjectPath(NextBidPath, "nextbid")},
     {ProjectPath(SubPath, "sub"), ProjectPath(AiTeamPath, "gone"),
      ProjectPath(NextBidPath, Null)},
     {}}

\* The project_path values of the rows the scripts find.
ItemPaths ==
    {Null,
     "/var/www/Studio/ai-team",
     "/var/www/Studio/ai-team/sub",
     "/var/www/Studio/ai-team/sub/file.js",
     "/var/www/Studio/ai-team/subway/x",
     "/var/www/Studio\\ai-team\\src",
     "/proj/x",
     "/project2/x",
     "/srv/unknown",
     "C:\\Projects\\NextBid_Dev\\foo",
     "C:/Projects/NextBid_Dev",
     "C:\\Projects\\Studio\\ai-team\\sub\\file.js",
     "C:\\Projects\\NextBid_Development\\foo",
     "D:\\Work\\foo"}

\* A row of a typed table, as the scripts see it.
RerouteRow(id, path, project, client) ==
    [id |-> id, project_path |-> path, project_id |-> project,
     client_id |-> client]

\* loadProjectPaths: the registered paths that have a path, a project id
\* and a project, each with its project's client id.
LookupRows(paths, projects) ==
    {[path |-> p.path, project_id |-> p.project_id,
      client_id |-> (CHOOSE q \in projects : q.id = p.project_id).client_id] :
        p \in {p \in paths : /\ p.path # Null
                             /\ p.project_id # Null
                             /\ \E q \in projects : q.id = p.project_id}}

\* Shortest first.
LongestFirstMut(lookup) ==
    \A i, j \in DOMAIN lookup :
        i < j => Len(lookup[i].path) <= Len(lookup[j].path)

\* pathLookup.sort((a, b) => b.path.length - a.path.length)
LongestFirst(lookup) ==
    \A i, j \in DOMAIN lookup :
        i < j => Len(lookup[i].path) >= Len(lookup[j].path)

\* loadProjectPaths: the lookups it can return.  The two selects carry no
\* ORDER BY, and the sort keeps paths of equal length in the order read.
loadProjectPaths(paths, projects) ==
    LET rows == LookupRows(paths, projects)
    IN {lookup \in [1..Cardinality(rows) -> rows] :
           /\ \A i, j \in DOMAIN lookup : i # j => lookup[i] # lookup[j]
           /\ LongestFirst(lookup)}

\* reroute_by_path.js findProjectForPath: an exact match, else the first
\* path of the lookup the item's path starts with, else null.
findProjectForPath(itemPath, lookup) ==
    IF itemPath = Null \/ itemPath = "" THEN NoMatch
    ELSE LET normalizedPath == replaceBackslashes(itemPath)
             exact == {k \in DOMAIN lookup : normalizedPath = lookup[k].path}
             prefix ==
                {k \in DOMAIN lookup :
                    \/ startsWith(normalizedPath, lookup[k].path \o "/")
                    \/ startsWith(normalizedPath, lookup[k].path)}
         IN IF exact # {} THEN lookup[Min(exact)]
            ELSE IF prefix # {} THEN lookup[Min(prefix)]
            ELSE NoMatch

\* reroute_windows.js findProjectForPath: one pass over the lookup.
findProjectForPathWindows(linuxPath, lookup) ==
    IF linuxPath = Null \/ linuxPath = "" THEN NoMatch
    ELSE LET hits ==
                {k \in DOMAIN lookup :
                    \/ linuxPath = lookup[k].path
                    \/ startsWith(linuxPath, lookup[k].path \o "/")
                    \/ startsWith(linuxPath, lookup[k].path)}
         IN IF hits # {} THEN lookup[Min(hits)] ELSE NoMatch

\* const PATH_MAP, in the order Object.entries lists it.
PATH_MAP ==
    <<[win |-> "C:\\Projects\\Studio\\kodiack-studio",
       linux |-> "/var/www/Studio/kodiack-studio"],
      [win |-> "C:\\Projects\\Kodiack-Studio\\kodiack-dashboard-5500",
       linux |-> "/var/www/Studio/kodiack-dashboard-5500"],
      [win |-> "C:\\Projects\\Studio\\kodiack-dashboard-5500",
       linux |-> "/var/www/Studio/kodiack-dashboard-5500"],
      [win |-> "C:\\Projects\\Studio\\ai-team",
       linux |-> "/var/www/Studio/ai-team"],
      [win |-> "C:\\Projects\\NextBid_Dev", linux |-> "/var/www/NextBid_Dev"],
      [win |-> "C:\\Projects\\Premier_Group",
       linux |-> "/var/www/Premier_Group"]>>

\* The prefix is replaced in the path as it was given.
mapWindowsToLinuxMut(winPath) ==
    IF winPath = Null \/ winPath = "" THEN Null
    ELSE LET hits == {k \in DOMAIN PATH_MAP :
                        startsWith(replaceBackslashes(winPath),
                                   replaceBackslashes(PATH_MAP[k].win))}
         IN IF hits = {} THEN Null
            ELSE PATH_MAP[Min(hits)].linux
                    \o SubSeq(winPath, Len(PATH_MAP[Min(hits)].win) + 1,
                              Len(winPath))

\* mapWindowsToLinux: the first entry of PATH_MAP the normalized path starts
\* with is replaced by its Linux root; null when there is none.
mapWindowsToLinux(winPath) ==
    IF winPath = Null \/ winPath = "" THEN Null
    ELSE LET normalized == replaceBackslashes(winPath)
             hits == {k \in DOMAIN PATH_MAP :
                        startsWith(normalized,
                                   replaceBackslashes(PATH_MAP[k].win))}
         IN IF hits = {} THEN Null
            ELSE replace(normalized,
                         replaceBackslashes(PATH_MAP[Min(hits)].win),
                         PATH_MAP[Min(hits)].linux)

\* itemPath.includes('\\') || itemPath.startsWith('C:')
IsWindowsPath(itemPath) ==
    includes(itemPath, "\\") \/ startsWith(itemPath, "C:")

\* from(table).update(fields).eq('id', id), fields being the ids of the
\* match and, in reroute_windows.js, the converted path.
RerouteUpdate(st, t, id, match, path) ==
    [st EXCEPT ![t] =
        {IF r.id = id
         THEN [r EXCEPT !.project_id = match.project_id,
                        !.client_id = match.client_id,
                        !.project_path = path]
         ELSE r : r \in @}]

\* .is('project_id', null)
UnattributedMut(rows) == rows

Unattributed(rows) == {r \in rows : r.project_id = Null}

\* main(): the script starts; once it has ended, it can be run again.
RerouteStart(script) ==
    /\ reroute.pc \in {"idle", "done"}
    /\ reroute.pc = "done" => script = reroute.script
    /\ reroute.run < MaxRuns
    /\ reroute' = [IdleReroute EXCEPT !.script = script, !.pc = "load",
                                      !.run = reroute.run + 1,
                                      !.clean = reroute.clean]
    /\ UNCHANGED <<store, nextId, registered, pathLookup, scorerVars,
                   detectorVars, gateVars, sweepVars, routerVars>>

\* await loadProjectPaths(): a select that fails yields no rows.
RerouteLoad(ok) ==
    /\ reroute.pc = "load"
    /\ \E lookup \in loadProjectPaths(registered, RerouteProjects) :
          pathLookup' = IF ok THEN lookup ELSE <<>>
    /\ reroute' = [reroute EXCEPT !.pc = "select", !.t = 1,
                                  !.clean = @ /\ ok]
    /\ UNCHANGED <<store, nextId, registered, scorerVars, detectorVars,
                   gateVars, sweepVars, routerVars>>

\* The script moves on to the next table, or ends after the last.
NextTable(r) ==
    IF r.t < Len(TABLES)
    THEN [r EXCEPT !.pc = "select", !.t = @ + 1, !.items = <<>>, !.i = 0]
    ELSE [r EXCEPT !.pc = "done", !.items = <<>>, !.i = 0]

\* rerouteTable: from(table).select('id, project_path')
\* .is('project_id', null).limit(2000), in the order the datastore answers.
RerouteSelect(ok) ==
    /\ reroute.pc = "select"
    /\ LET rows == Unattributed(store[TABLES[reroute.t]])
       IN \E items \in [1..Cardinality(rows) -> rows] :
             /\ \A i, j \in DOMAIN items : i # j => items[i] # items[j]
             /\ reroute' = IF ok /\ rows # {}
                           THEN [reroute EXCEPT !.pc = "item",
                                                !.items = items, !.i = 1]
                           ELSE NextTable([reroute EXCEPT !.clean = @ /\ ok])
    /\ UNCHANGED <<store, nextId, registered, pathLookup, scorerVars,
                   detectorVars, gateVars, sweepVars, routerVars>>

\* The path handed to the lookup for this item: the item's own path in
\* reroute_by_path.js; in reroute_windows.js the converted path of an item
\* that has a Windows path, and none for any other item.
Candidate(script, itemPath) ==
    IF script = "by_path" THEN itemPath
    ELSE IF itemPath = Null \/ itemPath = "" THEN Null
    ELSE IF IsWindowsPath(itemPath) THEN mapWindowsToLinux(itemPath)
    ELSE Null

\* rerouteTable, one item of the loop: the lookup, then the update of the
\* row when there is a match.
RerouteItem(ok) ==
    /\ reroute.pc = "item"
    /\ LET item == reroute.items[reroute.i]
           candidate == Candidate(reroute.script, item.project_path)
           match == IF reroute.script = "by_path"
                    THEN findProjectForPath(candidate, pathLookup)
                    ELSE findProjectForPathWindows(candidate, pathLookup)
           path == IF reroute.script = "by_path" THEN item.project_path
                   ELSE candidate
           handled == [reroute EXCEPT !.itemPath = item.project_path,
                                      !.candidate = candidate,
                                      !.match = match,
                                      !.routed = IF match # NoMatch /\ ok
                                                 THEN @ + 1 ELSE @,
                                      !.clean = @ /\ (match = NoMatch \/ ok)]
       IN /\ store' = IF match # NoMatch /\ ok
                      THEN RerouteUpdate(store, TABLES[reroute.t], item.id,
                                         match, path)
                      ELSE store
          /\ reroute' = IF reroute.i < Len(reroute.items)
                        THEN [handled EXCEPT !.i = @ + 1]
                        ELSE NextTable(handled)
    /\ UNCHANGED <<nextId, registered, pathLookup, scorerVars, detectorVars,
                   gateVars, sweepVars, routerVars>>

(***************************************************************************)
(* The reroute scripts' specification: two rows without a project and one  *)
(* with a project are stored, a registry is in place, one of the scripts   *)
(* runs; the gate, the sweeps, the router and the detector are at rest.    *)
(***************************************************************************)
RerouteInit ==
    /\ \E p1 \in ItemPaths, p2 \in ItemPaths :
          store = [t \in RerouteTables |->
                      CASE t = "dev_ai_knowledge" ->
                              {RerouteRow(1, p1, Null, Null)}
                        [] t = "dev_ai_todos" ->
                              {RerouteRow(1, p2, Null, Null),
                               RerouteRow(2, SubPath, "proj", "c3")}
                        [] OTHER -> {}]
    /\ nextId = [t \in RerouteTables |-> 3]
    /\ registered \in Registries
    /\ pathLookup = <<>>
    /\ reroute = IdleReroute
    /\ conflicts = {}
    /\ notifications = {}
    /\ flagReq = IdleFlag
    /\ req = [s \in Slots |-> IdleReq]
    /\ response = "none"
    /\ dbWrite = "none"
    /\ calls = [flag |-> 0, resolve |-> 0]
    /\ effects = [c \in 1..MaxFlags |-> 0]
    /\ SweepIdle
    /\ RouterIdle
    /\ ScorerIdle
    /\ DetectorIdle

RerouteNext ==
    \/ \E script \in {"by_path", "windows"} : RerouteStart(script)
    \/ \E ok \in BOOLEAN : RerouteLoad(ok)
    \/ \E ok \in BOOLEAN : RerouteSelect(ok)
    \/ \E ok \in BOOLEAN : RerouteItem(ok)

SpecReroute == RerouteInit /\ [][RerouteNext]_vars

(***************************************************************************)
(* The project detector: detectProject.                                    *)
(*                                                                         *)
(* A call scores the content against each project of PROJECTS in turn,     *)
(* picks the best score and answers with a project and a confidence.       *)
(* Weights, scores and confidences are counted in thousandths: they are    *)
(* sums of multiples of 0.05, and the one comparison with a constant       *)
(* (confidence < 0.3) can only meet its bound on a score of weight 1.0,    *)
(* which floating point adds exactly.                                      *)
(***************************************************************************)
\* 1.0, in thousandths.
Unit == 1000

\* if (confidence < 0.3 ...
LowConfidence == 300

\* confidence: 0.1
FallbackConfidence == 100

\* fallbackProject = 'dev-studio-5000'
DefaultFallback == "dev-studio-5000"

\* const PROJECTS, in the order Object.entries lists it.
PROJECTS ==
    <<[project |-> "engine-dev-5101",
       aliases |-> <<"engine", "nextbid engine", "auction engine",
                     "bidding engine">>,
       keywords |-> <<"auction", "bid", "bidding", "lot", "paddle", "gavel",
                      "hammer", "reserve", "increment", "proxy bid",
                      "absentee", "live auction", "tradeline",
                      "solicitation", "opportunity", "contract">>,
       paths |-> <<"engine-dev", "5101", "engine/">>,
       weight |-> 1000],
      [project |-> "source-dev-5102",
       aliases |-> <<"source", "nextbid source", "source manager",
                     "inventory">>,
       keywords |-> <<"inventory", "consignment", "consignor", "pickup",
                      "intake", "catalog item", "item condition",
                      "provenance">>,
       paths |-> <<"source-dev", "5102", "source/">>,
       weight |-> 1000],
      [project |-> "dev-studio-5000",
       aliases |-> <<"studio", "dev studio", "kodiack", "kodiack studio",
                     "dev-studio">>,
       keywords |-> <<"sidebar", "panel", "ai worker", "chad", "susan",
                      "clair", "ryan", "terminal", "claude code", "mcp">>,
       paths |-> <<"dev-studio", "5000", "studio/">>,
       weight |-> 800],
      [project |-> "auth-7000",
       aliases |-> <<"auth", "authentication", "auth service">>,
       keywords |-> <<"login", "logout", "jwt", "token", "session", "oauth",
                      "password", "credential">>,
       paths |-> <<"auth-7000", "7000">>,
       weight |-> 1000],
      [project |-> "ai-workers",
       aliases |-> <<"workers", "ai workers", "ai-workers">>,
       keywords |-> <<"cataloger", "cleaner", "session detector",
                      "project organizer", "knowledge service">>,
       paths |-> <<"ai-workers/", "chad-5401", "susan-5403", "ryan-5402",
                   "clair-5406">>,
       weight |-> 900]>>

UpperCaseLetters == "ABCDEFGHIJKLMNOPQRSTUVWXYZ"
LowerCaseLetters == "abcdefghijklmnopqrstuvwxyz"
Digits == "0123456789"

\* One character of s.toLowerCase().
lowerCaseChar(c) ==
    IF includes(UpperCaseLetters, c)
    THEN LET k == indexOf(UpperCaseLetters, c)
         IN SubSeq(LowerCaseLetters, k, k)
    ELSE c

\* s.toLowerCase()
RECURSIVE lowerCase(_)
lowerCase(s) ==
    IF s = "" THEN ""
    ELSE lowerCaseChar(SubSeq(s, 1, 1)) \o lowerCase(SubSeq(s, 2, Len(s)))

\* \w of a regular expression: a letter, a digit or the underscore.
IsWordChar(c) ==
    \/ includes(UpperCaseLetters, c)
    \/ includes(LowerCaseLetters, c)
    \/ includes(Digits, c)
    \/ c = "_"

\* \b before position k of s (k from 1 to Len(s) + 1): exactly one of the
\* characters on its two sides is a word character.
IsWordBoundary(s, k) ==
    LET before == k > 1 /\ IsWordChar(SubSeq(s, k - 1, k - 1))
        after == k <= Len(s) /\ IsWordChar(SubSeq(s, k, k))
    IN before # after

\* The keyword is found wherever it occurs.
KeywordMatchesMut(content, keyword) ==
    Cardinality({k \in 1..(Len(content) - Len(keyword) + 1) :
                    lowerCase(SubSeq(content, k, k + Len(keyword) - 1))
                       = keyword})

\* content.match(new RegExp(`\\b${keyword}\\b`, 'gi')): the number of
\* matches, 0 for null.  No keyword of PROJECTS can overlap a match of
\* itself, so the matches are the positions at which it occurs between two
\* word boundaries.
KeywordMatches(content, keyword) ==
    Cardinality({k \in 1..(Len(content) - Len(keyword) + 1) :
                    /\ lowerCase(SubSeq(content, k, k + Len(keyword) - 1))
                          = keyword
                    /\ IsWordBoundary(content, k)
                    /\ IsWordBoundary(content, k + Len(keyword))})

\* for (const alias of config.aliases): score += 3 * config.weight for each
\* alias the lowered content includes, from the i-th alias on.
RECURSIVE AliasScore(_, _, _)
AliasScore(config, contentLower, i) ==
    IF i > Len(config.aliases) THEN 0
    ELSE (IF includes(contentLower, config.aliases[i])
          THEN 3 * config.weight ELSE 0)
            + AliasScore(config, contentLower, i + 1)

\* for (const pathPattern of config.paths): score += 2 * config.weight for
\* each pattern the content includes.
RECURSIVE PathScore(_, _, _)
PathScore(config, content, i) ==
    IF i > Len(config.paths) THEN 0
    ELSE (IF includes(content, config.paths[i])
          THEN 2 * config.weight ELSE 0)
            + PathScore(config, content, i + 1)

\* for (const keyword of config.keywords):
\* score += (0.5 * keywordMatches.length) * config.weight
RECURSIVE KeywordScore(_, _, _)
KeywordScore(config, content, i) ==
    IF i > Len(config.keywords) THEN 0
    ELSE (KeywordMatches(content, config.keywords[i]) * config.weight) \div 2
            + KeywordScore(config, content, i + 1)

\* The score of one project, after the three loops.
ProjectScore(config, content) ==
    AliasScore(config, lowerCase(content), 1)
       + PathScore(config, content, 1)
       + KeywordScore(config, content, 1)

\* The loop over Object.entries(scores): the first entry with the highest
\* score, starting from the fallback with score 0.
RECURSIVE FindBest(_, _, _)
FindBest(scores, i, best) ==
    IF i > Len(scores) THEN best
    ELSE FindBest(scores, i + 1,
                  IF scores[i].score > best.score
                  THEN [project |-> scores[i].project,
                        score |-> scores[i].score]
                  ELSE best)

\* The best score as it is.
ConfidenceMut(bestScore) == bestScore \div 10

\* Math.min(bestScore / 10, 1)
Confidence(bestScore) ==
    IF bestScore \div 10 < Unit THEN bestScore \div 10 ELSE Unit

\* A low confidence always gives way to the fallback.
UseFallbackMut(confidence, bestProject, fallbackProject) ==
    confidence < LowConfidence

\* confidence < 0.3 && bestProject !== fallbackProject
UseFallback(confidence, bestProject, fallbackProject) ==
    confidence < LowConfidence /\ bestProject # fallbackProject

\* An argument of the call: a string, or a value of another type.
StringValue(text) == [type |-> "string", text |-> text]

Undefined == [type |-> "undefined", text |-> ""]

\* !content || typeof content !== 'string'
NoContent(content) == content.type # "string" \/ content.text = ""

\* The default of the second parameter applies to undefined.
FallbackOf(fallback) ==
    IF fallback.type = "undefined" THEN DefaultFallback ELSE fallback.text

AuctionText == "auction bid increment for lot"

\* The contents handed to detectProject.
Contents ==
    {Undefined,
     [type |-> "number", text |-> "42"],
     StringValue(""),
     StringValue(AuctionText),
     StringValue("the sidebar panel"),
     StringValue("auction engine: bid, bid, lot"),
     StringValue("NextBid Engine, Auction Engine, Bidding Engine at auction"),
     StringValue("see Engine/ in engine-dev for the auction"),
     StringValue("bidder rebid lots"),
     StringValue("auction bid lot paddle gavel hammer"),
     StringValue("login token jwt"),
     StringValue("auction consignment"),
     StringValue("Lot 7: BID or proxy bid")}

\* The fallbacks handed to detectProject.
Fallbacks ==
    {Undefined, StringValue("engine-dev-5101"), StringValue("unknown")}

\* The value detectProject returns.
Detected(project, confidence, reason) ==
    [project |-> project, confidence |-> confidence, reason |-> reason]

\* detectProject(content, fallbackProject): the guard on the content.
DetectCall(content, fallback) ==
    /\ detection.pc = "idle"
    /\ detection' =
          IF NoContent(content)
          THEN [pc |-> "done", content |-> content,
                fallbackProject |-> FallbackOf(fallback), k |-> 0,
                scores |-> <<>>, bestProject |-> Null, bestScore |-> 0,
                result |-> Detected(FallbackOf(fallback), 0, "no content")]
          ELSE [pc |-> "score", content |-> content,
                fallbackProject |-> FallbackOf(fallback), k |-> 1,
                scores |-> <<>>, bestProject |-> Null, bestScore |-> 0,
                result |-> Detected(Null, 0, Null)]
    /\ UNCHANGED <<store, nextId, resolverVars, detectorVars, gateVars,
                   sweepVars, routerVars>>

\* One turn of the loop over Object.entries(PROJECTS): a project that
\* scores is entered into scores.
DetectScore ==
    /\ detection.pc = "score"
    /\ LET config == PROJECTS[detection.k]
           score == ProjectScore(config, detection.content.text)
       IN detection' =
             [detection EXCEPT
                 !.scores = IF score > 0
                            THEN Append(@, [project |-> config.project,
                                            score |-> score])
                            ELSE @,
                 !.k = @ + 1,
                 !.pc = IF detection.k < Len(PROJECTS) THEN "score"
                        ELSE "select"]
    /\ UNCHANGED <<store, nextId, resolverVars, detectorVars, gateVars,
                   sweepVars, routerVars>>

\* The best project, its confidence and the answer.
DetectReturn ==
    /\ detection.pc = "select"
    /\ LET best == FindBest(detection.scores, 1,
                            [project |-> detection.fallbackProject,
                             score |-> 0])
           confidence == Confidence(best.score)
       IN detection' =
             [detection EXCEPT
                 !.pc = "done",
                 !.bestProject = best.project,
                 !.bestScore = best.score,
                 !.result =
                    IF UseFallback(confidence, best.project,
                                   detection.fallbackProject)
                    THEN Detected(detection.fallbackProject,
                                  FallbackConfidence,
                                  "low confidence, using fallback")
                    ELSE Detected(best.project, confidence, "matches")]
    /\ UNCHANGED <<store, nextId, resolverVars, detectorVars, gateVars,
                   sweepVars, routerVars>>

(***************************************************************************)
(* The detector's specification: one call of detectProject with a content  *)
(* and a fallback; everything else is at rest.                             *)
(***************************************************************************)
DetectInit ==
    /\ store = [t \in TypedTables |-> {}]
    /\ nextId = [t \in TypedTables |-> 1]
    /\ conflicts = {}
    /\ notifications = {}
    /\ flagReq = IdleFlag
    /\ req = [s \in Slots |-> IdleReq]
    /\ response = "none"
    /\ dbWrite = "none"
    /\ calls = [flag |-> 0, resolve |-> 0]
    /\ effects = [c \in 1..MaxFlags |-> 0]
    /\ SweepIdle
    /\ RouterIdle
    /\ ResolverIdle
    /\ ScorerIdle
    /\ DetectorIdle

DetectNext ==
    \/ \E content \in Contents, fallback \in Fallbacks :
          DetectCall(content, fallback)
    \/ DetectScore
    \/ DetectReturn

SpecDetect == DetectInit /\ [][DetectNext]_vars

(***************************************************************************)
(* The session detector of sessionDetector.js: a WebSocket client of the   *)
(* monitor that sets a timer for the /start command when a message tells   *)
(* of a fresh session, and a timer to reconnect when the socket fails.     *)
(* Every event handler and every timer callback runs to its end before the *)
(* next one starts.                                                        *)
(***************************************************************************)

\* The lines of monitor_output that tell of a fresh session (62-68).
startupIndicators ==
    <<"What would you like", "How can I help", "Claude Code", "Opus",
      "session started">>

\* startupIndicators.some(ind => msg.data.includes(ind))
HasStartupIndicator(data) ==
    \E k \in 1..Len(startupIndicators) : includes(data, startupIndicators[k])

\* The frames the monitor sends: JSON of a message with its type, or
\* something JSON.parse throws on.
MonitorMessages ==
    {[parses |-> FALSE, type |-> "", activeSessions |-> 0, data |-> ""]}
    \cup {[parses |-> TRUE, type |-> "monitor_connected",
           activeSessions |-> n, data |-> ""] : n \in {0, 1}}
    \cup {[parses |-> TRUE, type |-> "monitor_output", activeSessions |-> 0,
           data |-> d] :
             d \in {"", "$ ls -la", "Welcome to Opus", "session started"}}
    \cup {[parses |-> TRUE, type |-> "pong", activeSessions |-> 0,
           data |-> ""]}

\* The smallest socket not created yet.
NewSocket(d) ==
    CHOOSE s \in SocketIds :
       /\ d.readyState[s] = "none"
       /\ \A q \in SocketIds : d.readyState[q] = "none" => s <= q

\* connect(): nothing if the current socket is open, else a new socket that
\* starts connecting and replaces the current one.
WouldConnect(d) == ~(d.ws # NoSocket /\ d.readyState[d.ws] = "open")

connect(d) ==
    IF ~WouldConnect(d) THEN d
    ELSE [d EXCEPT !.ws = NewSocket(d),
                   !.readyState[NewSocket(d)] = "connecting"]

\* scheduleReconnect(): one timer unless one is already set.
scheduleReconnectMut(d) ==
    [d EXCEPT !.reconnectTimer = TRUE, !.reconnectTimers = @ + 1]

scheduleReconnect(d) ==
    IF d.reconnectTimer THEN d
    ELSE [d EXCEPT !.reconnectTimer = TRUE, !.reconnectTimers = @ + 1]

\* scheduleStartCommand(): sets the flag and one /start timer unless the
\* flag is already set.
scheduleStartCommand(d) ==
    IF d.startupTriggered THEN d
    ELSE [d EXCEPT !.startupTriggered = TRUE, !.startTimers = @ + 1]

\* The 'message' handler: a monitor_connected with active sessions, then a
\* monitor_output with an indicator, each only while the flag is clear; a
\* frame that does not parse is logged and dropped.
onMessage(d, msg) ==
    IF ~msg.parses THEN d
    ELSE LET connected ==
                IF /\ msg.type = "monitor_connected"
                   /\ msg.activeSessions > 0
                   /\ ~d.startupTriggered
                THEN scheduleStartCommand(d) ELSE d
         IN IF /\ msg.type = "monitor_output"
               /\ msg.data # ""
               /\ ~connected.startupTriggered
               /\ HasStartupIndicator(msg.data)
            THEN scheduleStartCommand(connected) ELSE connected

\* A message that tells of a fresh session.
Announces(msg) ==
    /\ msg.parses
    /\ \/ msg.type = "monitor_connected" /\ msg.activeSessions > 0
       \/ /\ msg.type = "monitor_output"
          /\ msg.data # ""
          /\ HasStartupIndicator(msg.data)

\* The history of a handled message: one more timer set, or one more
\* announcing message that set none.
Observed(d, after, msg) ==
    [after EXCEPT
        !.scheduled = @ + (after.startTimers - d.startTimers),
        !.ignored = IF Announces(msg) /\ after.startTimers = d.startTimers
                    THEN @ + 1 ELSE @]

DetectorUnchanged ==
    UNCHANGED <<store, nextId, gateVars, sweepVars, routerVars, resolverVars,
                scorerVars>>

\* start(): the first connect().
DetectorStart ==
    /\ ~detector.started
    /\ detector' = connect([detector EXCEPT !.started = TRUE])
    /\ DetectorUnchanged

\* 'open' of a socket: a new connection clears the flag.
SocketOpen(s) ==
    /\ detector.readyState[s] = "connecting"
    /\ detector' = [detector EXCEPT !.readyState[s] = "open",
                                    !.startupTriggered = FALSE,
                                    !.scheduled = 0, !.ignored = 0]
    /\ DetectorUnchanged

\* 'message' of an open socket.
SocketMessage(s, msg) ==
    /\ detector.readyState[s] = "open"
    /\ LET after == Observed(detector, onMessage(detector, msg), msg)
       IN /\ after.startTimers <= MaxStartTimers
          /\ after.scheduled <= MaxScheduled
          /\ after.ignored <= MaxIgnored
          /\ detector' = after
    /\ DetectorUnchanged

\* 'error' of a socket that connects or is open: the socket goes on to
\* close, the handler schedules a reconnect.
SocketError(s) ==
    /\ detector.readyState[s] \in {"connecting", "open"}
    /\ detector' = scheduleReconnect(
                      [detector EXCEPT !.readyState[s] = "closing",
                                       !.errored = @ \cup {s}])
    /\ DetectorUnchanged

\* 'close' of a socket, after an error or without one.
SocketClose(s) ==
    /\ detector.readyState[s] \in {"connecting", "open", "closing"}
    /\ detector' = scheduleReconnect(
                      [detector EXCEPT !.readyState[s] = "closed"])
    /\ DetectorUnchanged

\* The reconnect timer fires: the handle is cleared, then connect().
ReconnectFires ==
    /\ detector.reconnectTimers > 0
    /\ WouldConnect(detector) =>
          \E s \in SocketIds : detector.readyState[s] = "none"
    /\ detector' = connect([detector EXCEPT !.reconnectTimer = FALSE,
                                            !.reconnectTimers = @ - 1])
    /\ DetectorUnchanged

\* A /start timer fires: sendStartCommand() posts the command and changes
\* nothing of the detector.
StartFires ==
    /\ detector.startTimers > 0
    /\ detector' = [detector EXCEPT !.startTimers = @ - 1]
    /\ DetectorUnchanged

\* triggerStart(): the manual trigger clears the flag and sends at once;
\* what messages schedule from here on follows the manual trigger.
triggerStart ==
    /\ detector.started
    /\ detector' = [detector EXCEPT !.startupTriggered = FALSE,
                                    !.scheduled = 0, !.ignored = 0]
    /\ DetectorUnchanged

(***************************************************************************)
(* The session detector's specification: the detector with its sockets and *)
(* timers; everything else is at rest.                                     *)
(***************************************************************************)
SessionNext ==
    \/ DetectorStart
    \/ \E s \in SocketIds : SocketOpen(s)
    \/ \E s \in SocketIds, msg \in MonitorMessages : SocketMessage(s, msg)
    \/ \E s \in SocketIds : SocketError(s)
    \/ \E s \in SocketIds : SocketClose(s)
    \/ ReconnectFires
    \/ StartFires
    \/ triggerStart

SpecSession == DetectInit /\ [][SessionNext]_vars

(***************************************************************************)
(* Vocabulary of the gate's properties.                                    *)
(***************************************************************************)
\* Slot s takes a step.
Steps(s) == req'[s] # req[s]

\* The conflict row with this id, as stored now and after the step.
ConflictRow(id) == CHOOSE c \in conflicts : c.id = id

ConflictRowAfter(id) == CHOOSE c \in conflicts' : c.id = id

\* The row of a table with this id, after the step.
RowAfter(t, id) == CHOOSE r \in store'[t] : r.id = id

\* Every conflict row except the one named is left as it was.
OtherConflictsKept(id) ==
    /\ {c \in conflicts : c.id # id} = {c \in conflicts' : c.id # id}
    /\ {c.id : c \in conflicts} = {c.id : c \in conflicts'}

\* C2: a resolve call that finds its conflict no longer pending answers
\* 'Conflict already ...', leaves every conflict row (status, resolver,
\* timestamp, notes) and every typed-store row as they were, and ends.
AlreadyResolvedIsRefused ==
    [][\A s \in Slots :
        (/\ req[s].pc = "fetch"
         /\ Steps(s)
         /\ \E c \in conflicts : /\ c.id = req[s].body.conflict_id
                                 /\ c.status # "pending")
        => /\ response' = "400_already"
           /\ req'[s] = IdleReq
           /\ conflicts' = conflicts
           /\ store' = store
           /\ notifications' = notifications
           /\ effects' = effects]_vars

\* C2 witness: a conflict was resolved by a first call and a second call on
\* it has just been answered 'Conflict already ...'.
SecondResolveRefused ==
    /\ response = "400_already"
    /\ \E c \in conflicts : c.status = "resolved_update" /\ c.resolved_by = "dev1"
    /\ calls.resolve = 2

\* C3: the status of a conflict only leaves pending for a resolved_* value and
\* is never changed once it holds one.
StatusIsTerminal ==
    [][\A c \in conflicts :
        /\ \E d \in conflicts' : d.id = c.id
        /\ c.status # "pending" => ConflictRowAfter(c.id).status = c.status
        /\ ConflictRowAfter(c.id).status \in
              {c.status, "resolved_keep_existing", "resolved_update",
               "resolved_both_valid", "resolved_dismiss"}]_vars

\* C4: over its lifetime a conflict has at most one data effect (overwrite or
\* insert) applied to the typed store.
AtMostOneEffect == \A id \in DOMAIN effects : effects[id] <= 1

BothValidInsertsIntoItsTable ==
    [][\A s \in Slots :
        (/\ req[s].pc = "mark"
         /\ Steps(s)
         /\ req[s].body.resolution = "both_valid"
         /\ dbWrite' = "ok")
        => LET c == req[s].conflict
           IN /\ ConflictRowAfter(c.id).status = "resolved_both_valid"
              /\ \E r \in store'[c.existing_table] :
                    r.id # c.existing_id /\ r.content = c.new_content]_vars

\* C7: a resolution with keep_existing or dismiss never awaits a typed-store
\* write, and no step of it changes anything but its own conflict row: no
\* typed-store row is inserted, updated or deleted.
KeepAndDismissTouchNoRecord ==
    [][\A s \in Slots :
        /\ req'[s].body.resolution \in {"keep_existing", "dismiss"}
           => req'[s].pc # "effect"
        /\ (Steps(s) /\ req[s].body.resolution \in {"keep_existing", "dismiss"})
           => /\ store' = store
              /\ notifications' = notifications
              /\ effects' = effects
              /\ OtherConflictsKept(req[s].body.conflict_id)
              /\ (req[s].pc = "mark" /\ dbWrite' = "ok")
                 => ConflictRowAfter(req[s].body.conflict_id).status =
                       IF req[s].body.resolution = "dismiss"
                       THEN "resolved_dismiss" ELSE "resolved_keep_existing"
        ]_vars

\* C7 witness: a conflict has been resolved with keep_existing and every
\* typed-store row is as it was.
KeptExisting ==
    /\ response = "200_resolved"
    /\ store = GateInitStore
    /\ \E c \in conflicts : c.status = "resolved_keep_existing"

WellFormedFlag(b) ==
    b.existing_table # Null /\ b.existing_id # NoId /\ b.new_content # Null

WellFormedResolve(b) ==
    /\ b.conflict_id # NoId /\ b.dev_id # Null
    /\ b.resolution \in validResolutions

\* C9: a call that fails validation never reaches the datastore (no request
\* in flight carries a malformed body).
OnlyWellFormedInFlight ==
    /\ flagReq.pc # "idle" => WellFormedFlag(flagReq.body)
    /\ \A s \in Slots : req[s].pc # "idle" => WellFormedResolve(req[s].body)

\* C9: a call that is not taken in flight is answered with a 400, a resolve
\* call whose conflict id names no conflict is answered 404, and a step that
\* answers 400 (validation) or 404 creates and changes no conflict,
\* notification or typed-store row.
InvalidCallsHaveNoEffect ==
    [][/\ OnlyWellFormedInFlight'
       /\ (calls' # calls /\ req' = req /\ flagReq' = flagReq)
          => response' \in {"400_required", "400_invalid"}
       /\ \A s \in Slots :
            (/\ req[s].pc = "fetch" /\ Steps(s)
             /\ ~\E c \in conflicts : c.id = req[s].body.conflict_id)
            => response' = "404" /\ req'[s] = IdleReq
       /\ response' \in {"400_required", "400_invalid", "404"}
          => /\ store' = store
             /\ conflicts' = conflicts
             /\ notifications' = notifications
             /\ nextId' = nextId
             /\ effects' = effects]_vars

\* C9 witness: a resolve call naming a conflict id that does not exist has
\* been answered 404 while a conflict is pending.
NotFoundAnswered ==
    /\ response = "404"
    /\ \E c \in conflicts : c.status = "pending"

(***************************************************************************)
(* Properties of the sweeps and of purge requests.                         *)
(***************************************************************************)
\* The ids of a set of rows.
Ids(rows) == {r.id : r \in rows}

\* The rows of a table that the step removes.
Removed(t) == Ids(store[t]) \ Ids(store'[t])

\* C1: no step removes a row of a typed store, a session or a message
\* unless an approved purge request names that row when the step is taken;
\* this covers the cycles of both background cleaners.
NoDeletionWithoutApproval ==
    [][/\ \A t \in TypedTables : \A id \in Removed(t) : Approved(t, id)
       /\ \A id \in Ids(sessions) \ Ids(sessions') :
            Approved("dev_ai_sessions", id)
       /\ \A id \in Ids(messages) \ Ids(messages') :
            Approved("dev_ai_messages", id)]_vars

\* The request with this id after the step.
PurgeAfter(id) == CHOOSE q \in purge' : q.id = id

\* C10: the step that sets a purge request to approved removes no row, and
\* a row named by a purge request is removed only in a step that finds the
\* request approved and not yet executed and records executed_at on it.
PurgeOnlyByExecution ==
    [][\A p \in purge :
         /\ (p.status = "pending" /\ PurgeAfter(p.id).status = "approved")
            => \A t \in TypedTables : Removed(t) = {}
         /\ \A id \in p.record_ids \cap Removed(p.table_name) :
              /\ p.status = "approved"
              /\ p.executed_at = 0
              /\ PurgeAfter(p.id).executed_at # 0]_vars

(***************************************************************************)
(* Properties of the extraction router.                                    *)
(***************************************************************************)
\* The rows inserted for an extraction, now and after the step.
RowsOf(id) == {w \in written : w.extraction = id}

RowsOfAfter(id) == {w \in written' : w.extraction = id}

\* The extraction with this id after the step.
ExtractionAfter(id) == CHOOSE e \in extractions' : e.id = id

\* The stored row a history entry stands for.
StoredRow(w) == CHOOSE r \in store[w.table] : r.id = w.row

\* The elements of a batch.
Batch(c) == {cycle[c].pending[k] : k \in 1..Len(cycle[c].pending)}

\* Cycle c returns its counts in this step.
Returns(c) ==
    /\ cycle[c].pc = "loop"
    /\ cycle'[c] = IdleCycle
    /\ result'.kind = "counts"

\* C11: each extraction is consumed exactly once: its status changes only
\* while it is pending, at most one typed-store row is inserted for it, and
\* a cycle that returns has consumed every extraction of its batch, so that
\* none of them is handled again by a later cycle.
ConsumedExactlyOnce ==
    [][/\ \A e \in extractions :
            ExtractionAfter(e.id).status # e.status => e.status = "pending"
       /\ \A e \in extractions' : Cardinality(RowsOfAfter(e.id)) <= 1
       /\ \A c \in Cycles :
            Returns(c) =>
               \A id \in Batch(c) : ExtractionAfter(id).status # "pending"]_vars

\* C12: an extraction whose handling stopped between the insert of its row
\* and its status update gets no second row when it is handled again: no
\* extraction ever has two typed-store rows.
ResumeInsertsNoSecondRow ==
    \A e \in extractions : Cardinality(RowsOf(e.id)) <= 1

\* C13: the batch a cycle loops over holds only extractions that were
\* pending when selected; a select that finds no pending extraction ends
\* the cycle with zero counts, with no row written and no extraction
\* changed (processed, skipped and failed extractions are never retried).
CycleActsOnPendingOnly ==
    [][\A c \in Cycles :
         /\ (cycle[c].pc = "select" /\ cycle'[c].pc = "loop")
            => \A k \in 1..Len(cycle'[c].pending) :
                  Extraction(cycle'[c].pending[k]).status = "pending"
         /\ (/\ cycle[c].pc = "select" /\ cycle'[c].pc # "select"
             /\ \A e \in extractions : e.status # "pending")
            => /\ cycle'[c] = IdleCycle
               /\ result'.processed = 0
               /\ result'.skipped = 0
               /\ store' = store
               /\ extractions' = extractions
               /\ written' = written]_vars

\* C13 witness: a cycle has returned zero counts over a set of extractions
\* of which one is processed and one is failed.
CycleOverHandledSet ==
    /\ result = Result("early", 0, 0, 0, FALSE)
    /\ \E e \in extractions : e.status = "processed"
    /\ \E e \in extractions : e.status = "failed"
    /\ \A e \in extractions : e.status # "pending"

\* C14: the dedup guard: two different extractions never both get a row in
\* the same table with the same attribution scope and the same title.
DedupGuardSkipsKnownTitle ==
    \A w1, w2 \in written :
        (w1.extraction # w2.extraction /\ w1.table = w2.table)
        => \/ StoredRow(w1).project_id # StoredRow(w2).project_id
           \/ StoredRow(w1).project_path # StoredRow(w2).project_path
           \/ StoredRow(w1).title # StoredRow(w2).title

\* C15: an extraction is processed only if a row was written for it.
ProcessedOnlyIfWritten ==
    \A e \in extractions : e.status = "processed" => RowsOf(e.id) # {}

\* C16: when a cycle returns, every extraction of its batch whose handling
\* threw before the store write is marked failed.
ThrownItemsAreMarkedFailed ==
    [][\A c \in Cycles :
         Returns(c) =>
            \A id \in cycle[c].threw : ExtractionAfter(id).status = "failed"]_vars

\* C17: a throw while handling one item moves the loop on to the next item,
\* and a cycle that returns has handled every item of its batch: the counts
\* of processed, skipped and errored items it returns add up to the batch.
FailureDoesNotAbortCycle ==
    [][\A c \in Cycles :
         /\ (/\ cycle[c].pc = "loop" /\ cycle'[c].pc = "loop"
             /\ cycle'[c].errors > cycle[c].errors)
            => cycle'[c].i = cycle[c].i + 1
         /\ Returns(c)
            => /\ result'.processed = cycle[c].processed
               /\ result'.errors = cycle[c].errors
               /\ result'.skipped = cycle[c].skipped
               /\ result'.processed + result'.errors + result'.skipped
                     = Len(cycle[c].pending)]_vars

\* C17 witness: a cycle over a batch of two has returned after both items
\* failed.
CycleReturnedAfterTwoErrors ==
    /\ result.kind = "counts"
    /\ result.errors = 2

\* C18: when a cycle returns, every extraction of its batch whose cleaned
\* content is garbage (too short, too long, a noise signature) is marked
\* skipped and has no typed-store row.
GarbageIsSkipped ==
    [][\A c \in Cycles :
         Returns(c) =>
            \A id \in Batch(c) :
               isGarbage(stripAnsi(OrEmptyText(Extraction(id).content)))
               => /\ ExtractionAfter(id).status = "skipped"
                  /\ RowsOfAfter(id) = {}]_vars

\* The category-to-table lookup as the specification words it, and with todo
\* going to the todo store.
ClaimedTable(category) ==
    CASE category \in {"todo", "bug", "issue"} -> "dev_ai_bugs"
      [] category = "decision" -> "dev_ai_decisions"
      [] category = "lesson" -> "dev_ai_lessons"
      [] OTHER -> "dev_ai_knowledge"

AmendedTable(category) ==
    CASE category = "todo" -> "dev_ai_todos"
      [] category \in {"bug", "issue"} -> "dev_ai_bugs"
      [] category = "decision" -> "dev_ai_decisions"
      [] category = "lesson" -> "dev_ai_lessons"
      [] OTHER -> "dev_ai_knowledge"

\* The insert step of run r, and the tables a step changes.
InsertStep(r) == sorting[r].pc = "insert" /\ sorting'[r].pc = "mark"

ChangedTables == {t \in RouterTables : store'[t] # store[t]}

UnattributedStaysUnattributed ==
    \A w \in written :
        LET e == Extraction(w.extraction)
        IN /\ (e.project_path = Null /\ DetectProject(e.content) = Null)
              => /\ StoredRow(w).project_path = Null
                 /\ StoredRow(w).project_id = Null
           /\ (e.project_path # Null
               /\ ~\E pp \in ProjectPaths : pp.path = e.project_path)
              => StoredRow(w).project_id = Null

(***************************************************************************)
(* Properties of the attribution the router stores.                        *)
(***************************************************************************)
\* The path equals the registered path or lies below it.
AtOrBelow(path, registeredPath) ==
    path = registeredPath \/ startsWith(path, registeredPath \o "/")

\* The ids of the project the path resolver returns for the path, over the
\* registry the router reads.
ResolvedRouting(path) ==
    LET lookup == CHOOSE l \in loadProjectPaths(ProjectPaths, Projects) : TRUE
        match == findProjectForPath(path, lookup)
        proj == CHOOSE q \in Projects : q.id = match.project_id
    IN [client_id |-> proj.client_id, platform_id |-> proj.platform_id,
        project_id |-> proj.id]

\* C21: the row stored for an extraction whose project path equals a
\* registered path or lies below one carries the project, client and
\* platform ids of the project that owns the longest matching registered
\* path, the one the path resolver returns.
StoredRowCarriesResolvedIds ==
    \A w \in written :
        LET e == Extraction(w.extraction)
            row == StoredRow(w)
        IN (/\ e.project_path # Null
            /\ \E pp \in ProjectPaths : AtOrBelow(e.project_path, pp.path))
           => [client_id |-> row.client_id, platform_id |-> row.platform_id,
               project_id |-> row.project_id]
                 = ResolvedRouting(e.project_path)

\* C22: every row the router writes into a typed store carries the
\* confidence of the attribution that produced it, and a row without a
\* project carries confidence 0.
StoredRowCarriesConfidence ==
    \A w \in written :
        /\ "confidence" \in DOMAIN StoredRow(w)
        /\ StoredRow(w).project_id = Null => StoredRow(w).confidence = 0

(***************************************************************************)
(* Properties of the path resolver.                                        *)
(***************************************************************************)
\* The entries of the lookup the script loaded.
Lookups == {pathLookup[k] : k \in DOMAIN pathLookup}

\* Path a is a proper prefix of path b.
StrictPrefix(a, b) == a # b /\ startsWith(b, a)

\* The character at a position of a string.
CharAt(s, k) == SubSeq(s, k, k)

\* A character with the backslash read as a slash.
Slash(c) == IF c = "\\" THEN "/" ELSE c

\* The path the script has just resolved, with slashes only.
Resolved == replaceBackslashes(reroute.candidate)

\* C23: longest prefix wins.  Whenever one registered path is a proper
\* prefix of another and the resolved path equals the longer one or lies
\* below it, the resolver returns a registered path the resolved path
\* starts with that is no shorter than the longer one, never the shorter
\* one; with /var/www/Studio/ai-team and /var/www/Studio/ai-team/sub
\* registered, /var/www/Studio/ai-team/sub/file.js resolves to the sub
\* project.
LongestPrefixWins ==
    reroute.candidate # Null =>
       /\ \A a, b \in Lookups :
             (StrictPrefix(a.path, b.path) /\ AtOrBelow(Resolved, b.path))
             => /\ reroute.match \in Lookups
                /\ reroute.match # a
                /\ Len(reroute.match.path) >= Len(b.path)
                /\ startsWith(Resolved, reroute.match.path)
       /\ (/\ {AiTeamPath, SubPath} \subseteq {l.path : l \in Lookups}
           /\ Resolved = "/var/www/Studio/ai-team/sub/file.js")
          => reroute.match.project_id = "sub"

\* C23 witness: with both nested paths loaded, reroute_by_path.js has
\* resolved the file below the sub directory and has given its row the
\* sub project.
SubProjectResolved ==
    /\ reroute.script = "by_path"
    /\ {AiTeamPath, SubPath} \subseteq {l.path : l \in Lookups}
    /\ reroute.candidate = "/var/www/Studio/ai-team/sub/file.js"
    /\ reroute.match.project_id = "sub"
    /\ \E r \in store["dev_ai_knowledge"] :
          /\ r.project_path = "/var/www/Studio/ai-team/sub/file.js"
          /\ r.project_id = "sub"
          /\ r.client_id = "c2"

\* C24: path matching is boundary-safe: the resolver returns a registered
\* path only for a path that, once normalized, equals it or starts with it
\* followed by a slash.
MatchIsBoundarySafe ==
    reroute.match # NoMatch => AtOrBelow(Resolved, reroute.match.path)

\* The path starts with the k-th legacy prefix of PATH_MAP, whichever of
\* the two separators it is written with.
UnderLegacyPrefix(raw, k) ==
    LET win == PATH_MAP[k].win
    IN /\ Len(win) <= Len(raw)
       /\ \A j \in 1..Len(win) : Slash(CharAt(raw, j)) = Slash(CharAt(win, j))

\* out is raw with its legacy prefix replaced by the canonical root and
\* with every backslash of the rest turned into a slash.
IsNormalizedOf(out, raw) ==
    \E k \in DOMAIN PATH_MAP :
        LET win == PATH_MAP[k].win
            linux == PATH_MAP[k].linux
        IN /\ UnderLegacyPrefix(raw, k)
           /\ Len(out) = Len(linux) + Len(raw) - Len(win)
           /\ startsWith(out, linux)
           /\ \A j \in 1..(Len(raw) - Len(win)) :
                 CharAt(out, Len(linux) + j) = Slash(CharAt(raw, Len(win) + j))

\* C25: reroute_windows.js normalizes a legacy path before it matches it:
\* the known prefix is replaced by its canonical root and the rest is kept
\* with slashes for backslashes, the lookup is given the normalized path,
\* and a row that is updated receives it (C:\Projects\NextBid_Dev\foo
\* becomes /var/www/NextBid_Dev/foo); a legacy path under no known prefix
\* maps to null and the step changes no row.
LegacyPathIsNormalized ==
    [][(reroute.pc = "item" /\ reroute.script = "windows")
       => LET item == reroute.items[reroute.i]
              raw == item.project_path
              known == \E k \in DOMAIN PATH_MAP : UnderLegacyPrefix(raw, k)
          IN (raw # Null /\ IsWindowsPath(raw))
             => /\ known
                   => /\ reroute'.candidate # Null
                      /\ IsNormalizedOf(reroute'.candidate, raw)
                      /\ reroute'.match # NoMatch
                         => startsWith(reroute'.candidate,
                                       reroute'.match.path)
                      /\ store' # store
                         => \E r \in store'[TABLES[reroute.t]] :
                               /\ r.id = item.id
                               /\ r.project_path = reroute'.candidate
                               /\ r.project_id = reroute'.match.project_id
                      /\ raw = "C:\\Projects\\NextBid_Dev\\foo"
                         => reroute'.candidate = "/var/www/NextBid_Dev/foo"
                /\ ~known
                   => /\ reroute'.candidate = Null
                      /\ reroute'.match = NoMatch
                      /\ store' = store]_vars

\* C25 witness: reroute_windows.js has handled C:\Projects\NextBid_Dev\foo
\* and the row now carries /var/www/NextBid_Dev/foo and the project
\* registered for /var/www/NextBid_Dev.
LegacyRowConverted ==
    /\ reroute.script = "windows"
    /\ reroute.itemPath = "C:\\Projects\\NextBid_Dev\\foo"
    /\ reroute.candidate = "/var/www/NextBid_Dev/foo"
    /\ \E r \in store["dev_ai_knowledge"] :
          /\ r.project_path = "/var/www/NextBid_Dev/foo"
          /\ r.project_id = "nextbid"

(***************************************************************************)
(* Properties of the project detector.                                     *)
(***************************************************************************)
\* The call has returned.
DetectReturned == detection.pc = "done"

\* The content of the call is a non-empty string.
HasContent == detection.content.type = "string" /\ detection.content.text # ""

\* min(score / 10, 1), in thousandths.
ConfidenceOf(score) == IF score \div 10 > Unit THEN Unit ELSE score \div 10

\* C26: detect returns a confidence between 0 and 1 inclusive, and for a
\* content that is empty or not a string it returns the fallback project
\* with confidence exactly 0.
ConfidenceInUnitInterval ==
    DetectReturned =>
       /\ detection.result.confidence >= 0
       /\ detection.result.confidence <= Unit
       /\ ~HasContent
          => /\ detection.result.project = detection.fallbackProject
             /\ detection.result.confidence = 0

\* C26 witness: a call with the empty string and the fallback "unknown"
\* has returned that fallback with confidence 0.
EmptyContentAnswered ==
    /\ DetectReturned
    /\ detection.content = StringValue("")
    /\ detection.result = Detected("unknown", 0, "no content")

\* C27: when the best-scoring project has a confidence below 0.3 and is
\* not the fallback, detect returns the fallback with confidence 0.1; when
\* the best-scoring project is the fallback, detect returns it with its
\* computed confidence; a project other than the fallback is returned only
\* with a confidence of at least 0.3.
WeakMatchYieldsFallback ==
    (DetectReturned /\ HasContent) =>
       LET computed == ConfidenceOf(detection.bestScore)
       IN /\ (/\ computed < LowConfidence
              /\ detection.bestProject # detection.fallbackProject)
             => /\ detection.result.project = detection.fallbackProject
                /\ detection.result.confidence = FallbackConfidence
          /\ detection.bestProject = detection.fallbackProject
             => /\ detection.result.project = detection.fallbackProject
                /\ detection.result.confidence = computed
          /\ detection.result.project # detection.fallbackProject
             => detection.result.confidence >= LowConfidence

\* C27 witness: "login token jwt" scores 1.5 for auth-7000 alone, and the
\* call has returned the default fallback with confidence 0.1.
WeakMatchReplaced ==
    /\ DetectReturned
    /\ detection.content = StringValue("login token jwt")
    /\ detection.bestProject = "auth-7000"
    /\ detection.bestScore = 1500
    /\ detection.result.project = DefaultFallback
    /\ detection.result.confidence = FallbackConfidence

\* The number of occurrences of the keyword in the content, whatever the
\* case, that have no word character before them and none after them.
WordOccurrences(content, keyword) ==
    Cardinality(
       {k \in 1..Len(content) :
           LET end == k + Len(keyword) - 1
           IN /\ end <= Len(content)
              /\ lowerCase(SubSeq(content, k, end)) = lowerCase(keyword)
              /\ k = 1 \/ ~IsWordChar(CharAt(content, k - 1))
              /\ end = Len(content) \/ ~IsWordChar(CharAt(content, end + 1))})

\* f[1] + ... + f[n]
RECURSIVE SumTo(_, _)
SumTo(f, n) == IF n = 0 THEN 0 ELSE f[n] + SumTo(f, n - 1)

\* 3 x weight for each alias the content contains (whatever the case of
\* the content), 2 x weight for each path fragment it contains, and
\* 0.5 x weight x occurrences for each keyword.
WeightedSum(config, content) ==
    3 * config.weight
        * Cardinality({i \in DOMAIN config.aliases :
                          includes(lowerCase(content), config.aliases[i])})
    + 2 * config.weight
        * Cardinality({i \in DOMAIN config.paths :
                          includes(content, config.paths[i])})
    + SumTo([i \in DOMAIN config.keywords |->
                (config.weight * WordOccurrences(content, config.keywords[i]))
                   \div 2],
            Len(config.keywords))

\* The scores entered so far.
Scored == {detection.scores[i] : i \in DOMAIN detection.scores}

\* C28: the score detect computes for a project is 3 x weight for each
\* alias found, plus 2 x weight for each path fragment found, plus
\* 0.5 x weight x the number of word-boundary, case-insensitive
\* occurrences of each keyword; the project selected is one with the
\* highest score, and the confidence is min(best score / 10, 1), which is
\* the confidence returned with the selected project.
ScoreIsWeightedSum ==
    HasContent =>
       /\ \A j \in 1..(detection.k - 1) :
             LET sum == WeightedSum(PROJECTS[j], detection.content.text)
             IN IF sum > 0
                THEN [project |-> PROJECTS[j].project, score |-> sum]
                        \in Scored
                ELSE \A e \in Scored : e.project # PROJECTS[j].project
       /\ DetectReturned
          => /\ \A j \in DOMAIN PROJECTS :
                   WeightedSum(PROJECTS[j], detection.content.text)
                      <= detection.bestScore
             /\ detection.bestScore > 0
                => [project |-> detection.bestProject,
                    score |-> detection.bestScore] \in Scored
             /\ detection.result.project = detection.bestProject
                => \/ detection.result.confidence
                         = ConfidenceOf(detection.bestScore)
                   \/ detection.result.reason
                         = "low confidence, using fallback"

\* C28 witness: a content with an alias, a path fragment and a keyword of
\* the engine project has scored 3 + 2 + 0.5 and has been answered with
\* that project at confidence 0.55.
ThreeSignalsScored ==
    /\ DetectReturned
    /\ detection.content = StringValue("see Engine/ in engine-dev for the auction")
    /\ detection.scores = <<[project |-> "engine-dev-5101", score |-> 5500]>>
    /\ detection.result.project = "engine-dev-5101"
    /\ detection.result.confidence = 550

\* C29: detect("auction bid increment for lot") returns the auction
\* project, engine-dev-5101, with a confidence greater than 0.3.
AuctionTextDetected ==
    (DetectReturned /\ detection.content = StringValue(AuctionText))
    => /\ detection.result.project = "engine-dev-5101"
       /\ detection.result.confidence > LowConfidence

(***************************************************************************)
(* Properties of the dedup sweeps.                                         *)
(***************************************************************************)
\* A dedup pass over table t that met no failure ends in this step:
\* cleanDuplicateKnowledge of either cleaner, cleanDuplicateTodos or the
\* pass of cleanAllDuplicates over t.
DedupStep(t) ==
    \/ /\ t = "dev_ai_knowledge"
       /\ cleaner.pc = "knowledge" /\ cleaner'.pc # "knowledge"
       /\ cleaner'.ok
    \/ /\ t = "dev_ai_knowledge"
       /\ cleanup.pc = "knowledge" /\ cleanup'.pc # "knowledge"
       /\ cleanup'.ok
    \/ /\ t = "dev_ai_todos"
       /\ cleanup.pc = "todos" /\ cleanup'.pc # "todos"
       /\ cleanup'.ok
    \/ /\ cleanup.pc = "all" /\ cleanup'.i # cleanup.i
       /\ t = AllDuplicatesTables[cleanup.i]
       /\ cleanup'.ok

\* Two rows of the same scope whose titles are identical once normalized.
SameScopeAndTitle(q, r) ==
    /\ q.title # NoTitle
    /\ r.title # NoTitle
    /\ toLowerCase(q.title) = toLowerCase(r.title)
    /\ q.project_id = r.project_id
    /\ q.project_path = r.project_path

\* C30: a dedup sweep keeps the first-created row of each key and deletes
\* every later-created row with the same key: of two rows of a table with
\* identical normalized titles in the same scope, the first-created one
\* is there after the sweep's pass over the table and the later one is
\* not.
DedupKeepsFirstCreated ==
    [][\A t \in TypedTables :
          DedupStep(t) =>
             \A q, r \in store[t] :
                (/\ SameScopeAndTitle(q, r)
                 /\ Before(q, r)
                 /\ ~\E p \in store[t] : SameScopeAndTitle(p, q) /\ Before(p, q))
                => q \in store'[t] /\ r \notin store'[t]]_vars

(***************************************************************************)
(* Properties of the sweeps' cycles.                                       *)
(***************************************************************************)
\* The ids each dedup pass would delete from these rows.
CleanerPass(rows) == LaterOccurrences(rows, [k \in rows |-> CleanerKey(k)])

CleanupKnowledgePass(rows) ==
    IF \E k \in rows : k.title = NoTitle
    THEN {}
    ELSE EarlierOccurrences(rows, [k \in rows |-> CleanupKnowledgeKey(k)])

CleanupTodosPass(rows) ==
    EarlierOccurrences(rows, [t \in rows |-> CleanupTodoKey(t)])

AllDuplicatesPass(rows) ==
    LaterOccurrences(rows, [row \in rows |-> AllDuplicatesKey(row)])

\* The step is this step of a cycle, and it met no failure.
CleanerRan(step) == cleaner.pc = step /\ cleaner'.pc # step /\ cleaner'.ok

CleanupRan(step) == cleanup.pc = step /\ cleanup'.pc # step /\ cleanup'.ok

AllDuplicatesRan(t) ==
    /\ cleanup.pc = "all" /\ cleanup'.i # cleanup.i /\ cleanup'.ok
    /\ t = AllDuplicatesTables[cleanup.i]

\* C31: the dedup sweep converges.  When a dedup pass has read its table and
\* applied its deletes, the same sweep's passes over that table, run again
\* on the rows the pass left, delete nothing: the surviving rows are the
\* same after both runs.
DedupConverges ==
    [][/\ CleanerRan("knowledge")
          => CleanerPass(store'["dev_ai_knowledge"]) = {}
       /\ CleanupRan("knowledge")
          => CleanupKnowledgePass(store'["dev_ai_knowledge"]) = {}
       /\ CleanupRan("todos")
          => CleanupTodosPass(store'["dev_ai_todos"]) = {}
       /\ \A t \in TypedTables :
            AllDuplicatesRan(t)
            => /\ AllDuplicatesPass(store'[t]) = {}
               /\ t = "dev_ai_todos" => CleanupTodosPass(store'[t]) = {}]_vars

\* C31 witness: two knowledge rows were stored, a dedup pass has deleted
\* one of them, and runCleanup is past its knowledge pass, which met no
\* failure.
KnowledgeDeduplicated ==
    /\ cleanup.pc = "todos"
    /\ cleanup.ok
    /\ nextId["dev_ai_knowledge"] = 3
    /\ Cardinality(store["dev_ai_knowledge"]) = 1

\* A cycle of the sweep begins in this step.
CycleBegins(sweep, sweepAfter) ==
    sweepAfter.pc = "sessions" /\ sweep.pc # "sessions"

\* C32: within one process two cycles of a sweep never overlap.  A cycle
\* of runCycle (of runCleanup) begins only when none is running, the flag
\* is set for as long as the cycle is at one of its steps, and a call
\* made meanwhile returns at the guard, changing nothing.
CyclesNeverOverlap ==
    [][/\ CycleBegins(cleaner, cleaner')
          => cleaner.pc = "idle" /\ ~cleaner.isRunning
       /\ CycleBegins(cleanup, cleanup')
          => cleanup.pc = "idle" /\ ~cleanup.isRunning
       /\ cleaner.pc # "idle" => cleaner.isRunning
       /\ cleanup.pc # "idle" => cleanup.isRunning
       /\ cleaner'.pc # "idle" => cleaner'.isRunning
       /\ cleanup'.pc # "idle" => cleanup'.isRunning]_vars

\* C32 witness: both sweeps are in the middle of a cycle, past their first
\* steps, so that a timer tick of either finds its flag set.
CycleInProgress ==
    /\ Running(cleaner) /\ cleaner.pc = "knowledge"
    /\ Running(cleanup) /\ cleanup.pc = "all"
    /\ ENABLED CleanerSkip
    /\ ~ENABLED CleanerStart

\* The sessions a step of a sweep prunes: marked stale or deleted.
Pruned ==
    {x \in sessions :
        \/ x \notin sessions' /\ ~\E y \in sessions' : y.id = x.id
        \/ \E y \in sessions' : y.id = x.id /\ y.status = "stale"
                                           /\ x.status # "stale"}

\* C33: a sweep prunes a session (marks it stale or deletes it) only if it
\* started before the retention cutoff and has no message at the moment it
\* is pruned.
PrunedSessionsAreOldAndEmpty ==
    [][\A x \in Pruned :
          /\ x.started_at < Today - RetentionEmptySessions
          /\ ~\E m \in messages : m.session_id = x.id]_vars

\* The session a message belongs to, as stored before the step.
SessionOf(m) == {x \in sessions : x.id = m.session_id}

\* C34: a sweep deletes a message only if the message is older than the
\* message retention window and its session has status completed.
ArchivedMessagesAreOldAndCompleted ==
    [][\A m \in messages \ messages' :
          /\ m.created_at < Today - RetentionMessagesCompleted
          /\ \A x \in SessionOf(m) : x.status = "completed"
          /\ SessionOf(m) # {}]_vars

\* C34 witness: a message was stored for a completed session and
\* archiveOldMessages of the running cycle has deleted it.
OldMessageArchived ==
    /\ cleanup.pc = "knowledge"
    /\ cleanup.ok
    /\ nextId["dev_ai_messages"] = 2
    /\ messages = {}
    /\ \E x \in sessions : x.status = "completed"

(***************************************************************************)
(* Properties of the gate's error handling.                                *)
(***************************************************************************)
\* C35: a conflict's status becomes resolved_update or resolved_both_valid
\* only if the write to the typed store succeeded.  When the handler has
\* issued that write and the datastore has applied none for the conflict,
\* the conflict stays pending and the call is not answered 'Conflict
\* resolved'.
ResolvedOnlyAfterWrite ==
    [][\A s \in Slots :
        (/\ req[s].pc = "mark"
         /\ Steps(s)
         /\ HasEffect(req[s].body.resolution, req[s].conflict.existing_table)
         /\ effects[req[s].conflict.id] = 0)
        => /\ ConflictRowAfter(req[s].conflict.id).status = "pending"
           /\ response' # "200_resolved"]_vars

\* The dedup key of the specification: the attribution scope and the
\* normalized title, truncated to its first 100 characters.
SameDedupKey(q, r) ==
    /\ q.project_id = r.project_id
    /\ q.project_path = r.project_path
    /\ substring100(toLowerCase(OrEmpty(q.title)))
          = substring100(toLowerCase(OrEmpty(r.title)))

IsPending(id) == \E e \in extractions : e.id = id /\ e.status = "pending"

HasLeftPending(id) ==
    \E e \in extractions :
        e.id = id /\ e.status \in {"processed", "skipped", "failed"}

\* C37: under repeated timer ticks, with a datastore that eventually
\* answers, every pending extraction eventually leaves the pending state:
\* it is processed, skipped or failed.
PendingEventuallyLeaves ==
    \A id \in 1..MaxExtractions : IsPending(id) ~> HasLeftPending(id)

\* The order of the steps of runCycle and of runCleanup: a step and the one
\* that follows it, with the table index of cleanAllDuplicates.
CleanerOrder ==
    {<<"idle", "sessions">>, <<"sessions", "knowledge">>,
     <<"knowledge", "idle">>}

CleanupOrder ==
    {<<"idle", 0, "sessions", 0>>, <<"sessions", 0, "messages", 0>>,
     <<"messages", 0, "knowledge", 0>>, <<"knowledge", 0, "todos", 0>>,
     <<"todos", 0, "all", 1>>, <<"all", 1, "all", 2>>, <<"all", 2, "idle", 0>>}

\* C38: the already-running flag is cleared when a cycle ends, whether its
\* steps met a failure or not, and a failure in one step or one table does
\* not keep the remaining ones from running: a cycle takes its steps in
\* their order whatever their outcomes, a sweep at rest has its flag clear,
\* and a cycle called then starts and is not skipped.
CycleEndsWithFlagCleared ==
    [][/\ cleaner' # cleaner => <<cleaner.pc, cleaner'.pc>> \in CleanerOrder
       /\ cleanup' # cleanup
          => <<cleanup.pc, cleanup.i, cleanup'.pc, cleanup'.i>> \in CleanupOrder
       /\ cleaner'.pc = "idle" => ~cleaner'.isRunning
       /\ cleanup'.pc = "idle" => ~cleanup'.isRunning
       /\ cleaner.pc = "idle" => ENABLED CleanerStart /\ ~ENABLED CleanerSkip
       /\ cleanup.pc = "idle" => ENABLED CleanupStart /\ ~ENABLED CleanupSkip]_vars

\* C38 witness: a cycle of runCleanup in which the pass over dev_ai_todos
\* of cleanAllDuplicates failed has gone on to the next table, another
\* cycle has ended after a failure of its last step, and a new cycle can
\* start.
CycleWentOnAfterFailure ==
    /\ cleanup.pc = "all" /\ cleanup.i = 2 /\ ~cleanup.ok
    /\ cleaner.pc = "idle" /\ ~cleaner.ok /\ ~cleaner.isRunning
    /\ ENABLED CleanerStart

(***************************************************************************)
(* Properties of the reroute pass.                                         *)
(***************************************************************************)
\* The registered record the running script's lookup answers for a row.
RerouteMatch(r) ==
    IF reroute.script = "by_path"
    THEN findProjectForPath(r.project_path, pathLookup)
    ELSE findProjectForPathWindows(
            Candidate(reroute.script, r.project_path), pathLookup)

\* The row of a table with this id after the step.
ReroutedRow(t, id) == CHOOSE q \in store'[t] : q.id = id

StartScheduledOncePerConnection ==
    /\ detector.scheduled <= 1
    /\ detector.reconnectTimers <= 1

\* Witness of C40: since the latest 'open' one message has set the /start
\* timer and two more announcing messages have set none, while a socket
\* that fired 'error' and then 'close' has left one reconnect timer
\* pending.
AnnouncedTwiceAndClosedAfterError ==
    /\ detector.scheduled = 1
    /\ detector.ignored = 2
    /\ detector.reconnectTimers = 1
    /\ \E s \in SocketIds :
          s \in detector.errored /\ detector.readyState[s] = "closed"


====
